---- MODULE Spec2Model ----
(***************************************************************************)
(* ICM20602 accelerometer/gyroscope driver                                 *)
(* (src/src/drivers/icm20602/icm20602.cpp).                                *)
(*                                                                         *)
(* The driver object and the sensor behind the bus are one record, icm:    *)
(* its fields carry the names of the members of class ICM20602, plus       *)
(*   chip     the sensor's copy of the eight checked registers,            *)
(*   irq_off  whether the caller left interrupts disabled,                 *)
(*   op, ret, cyc, rst   what the last operation was and what it returned  *)
(*            (observation only, never read by a handler).                 *)
(* Every handler is an operator from a record to a record, so that a       *)
(* handler that calls another one (init() calls reset() and measure())     *)
(* is the composition of the two operators.                                *)
(***************************************************************************)
EXTENDS Integers, Sequences, FiniteSets, TLC

VARIABLES icm, now, phase

vars == <<icm, now, phase>>

-----------------------------------------------------------------------------
(* Bounds of the model *)

\* hrt_absolute_time() advances MaxTicks times, by TickUs microseconds each
TickUs == 10000
MaxTicks == 1
\* cap of the event counters that count failures
MaxCount == 1
\* cap of the bad-register counter
MaxBadRegs == 2
\* cap of the reset-retries counter
MaxRetries == 4
\* number of good transfers the model follows in the driver as shipped
MaxCycles == 2
\* number of good transfers, or of pushed reports, the model follows where
\* the health monitor runs
MaxMonitored == 1
\* largest sample rate an ioctl asks for, in Hz
MaxRate == 1100
\* largest range an ioctl asks for, in g
MaxRange == 20
\* largest cutoff an ioctl asks for, in Hz, next to the largest uint16_t
MaxCutoff == 200
\* largest queue depth an ioctl asks for
MaxDepth == 101
\* number of measurement cycles in a row the model follows with no cap on
\* the event counters
MaxFollowed == 4

-----------------------------------------------------------------------------
(* Registers and bit values.  The header icm20602.h is not part of the     *)
(* source tree at hand; the values are those of the sensor's register map. *)

ICM20602_NUM_CHECKED_REGISTERS == 8

\* positions in _checked_registers[]
ICMREG_PWR_MGMT_1 == 0
ICMREG_USER_CTRL == 1
ICMREG_SMPLRT_DIV == 2
ICMREG_CONFIG == 3
ICMREG_GYRO_CONFIG == 4
ICMREG_ACCEL_CONFIG == 5
ICMREG_INT_ENABLE == 6
ICMREG_INT_PIN_CFG == 7

CheckedIdx == 0 .. (ICM20602_NUM_CHECKED_REGISTERS - 1)

BIT_H_RESET == 128
BITS_BESTCLOCK_PLL3 == 3
BITS_FS_2000DPS == 24
BIT_DATA_RDY_INT_EN == 1
BIT_INT_ANYRD_2CLEAR == 16
BITS_DLPF_CFG_188HZ == 1
BITS_DLPF_CFG_98HZ == 2
BITS_DLPF_CFG_42HZ == 3
BITS_DLPF_CFG_20HZ == 4
BITS_DLPF_CFG_10HZ == 5
BITS_DLPF_CFG_5HZ == 6
BITS_DLPF_CFG_4000HZ_NOLPF == 7

ICM20602_GYRO_DEFAULT_RATE == 1000
ICM20602_ACCEL_DEFAULT_RATE == 1000
GYRO_SAMPLERATE_DEFAULT == 1000
ACCEL_SAMPLERATE_DEFAULT == 1000
ICM20602_ACCEL_DEFAULT_DRIVER_FILTER_FREQ == 30
ICM20602_GYRO_DEFAULT_DRIVER_FILTER_FREQ == 30
ICM20602_DEFAULT_ONCHIP_FILTER_FREQ == 42
ICM20602_TIMER_REDUCTION == 200
\* standard gravity 9.80665f, in units of 0.00001 m/s^2
ICM20602_ONE_G == 980665

\* the sensor's registers after a chip reset: asleep, clock source 1
ChipPowerOn == [i \in CheckedIdx |-> IF i = ICMREG_PWR_MGMT_1 THEN 65 ELSE 0]

\* what a member that the constructor does not initialise may hold
UninitVals == {0, 255}

\* values a glitch may leave in a register
CorruptVals == {85}

-----------------------------------------------------------------------------
(* Raw samples: seven big-endian 16-bit fields, each a pair <<high, low>>  *)

\* the bytes the sensor puts on the bus for a signed 16-bit value
BytesOf(v) ==
    LET u == IF v < 0 THEN v + 65536 ELSE v
    IN  <<u \div 256, u % 256>>

\* big-endian byte pair to host int16_t
int16_t_from_bytes(b) ==
    LET u == b[1] * 256 + b[2]
    IN  IF u >= 32768 THEN u - 65536 ELSE u

ICMReport(ax, ay, az, t, gx, gy, gz) ==
    [accel_x |-> BytesOf(ax), accel_y |-> BytesOf(ay), accel_z |-> BytesOf(az),
     temp |-> BytesOf(t),
     gyro_x |-> BytesOf(gx), gyro_y |-> BytesOf(gy), gyro_z |-> BytesOf(gz)]

\* the samples the sensor delivers in the model: an all-zero transfer, two
\* ordinary samples with different accel triplets, a sample whose accel
\* triplet is zero while the other fields are not
Samples ==
    { ICMReport(0, 0, 0, 0, 0, 0, 0),
      ICMReport(256, -2, 3, 40, 5, -6, 7),
      ICMReport(-32768, 2, 3, 40, -32768, 6, 7),
      ICMReport(0, 0, 0, 40, 5, -6, 7) }

\* bytes 0..5 of the transfer's accel block
AccelBytes(raw) == <<raw.accel_x, raw.accel_y, raw.accel_z>>

ZeroAccel == <<<<0, 0>>, <<0, 0>>, <<0, 0>>>>

\* a transfer buffer nothing was fetched into
NoSample == ICMReport(0, 0, 0, 0, 0, 0, 0)

-----------------------------------------------------------------------------
(* ringbuffer::RingBuffer, as far as the driver uses it *)

\* force(): append, dropping the oldest report when the buffer is full
force(buf, size, item) ==
    IF Len(buf) >= size THEN Append(Tail(buf), item) ELSE Append(buf, item)

\* get(): drop the oldest report, if any
get(buf) == IF buf = <<>> THEN buf ELSE Tail(buf)

-----------------------------------------------------------------------------
(* Observation of the last operation *)

\* kind: the path measure() took; good: whether it counted a good transfer
\* (the counter _good_transfers is never read by the driver and is not kept)
\* raw: the transfer the cycle fetched (NoSample when it fetched none)
\* win_accel, win_gyro: whether the integrator closed its window in the cycle
NoCycle == [kind |-> "none", raw |-> NoSample, good |-> FALSE,
            pushed |-> FALSE, pub_accel |-> FALSE, pub_gyro |-> FALSE,
            win_accel |-> FALSE, win_gyro |-> FALSE]

Cycle(kind, raw, pushed, pa, pg) ==
    [kind |-> kind, raw |-> raw,
     good |-> kind \in {"wait", "full"},
     pushed |-> pushed, pub_accel |-> pa, pub_gyro |-> pg,
     win_accel |-> FALSE, win_gyro |-> FALSE]

NoReset == [attempts |-> 0, failed |-> 0, retries |-> 0, configured |-> FALSE,
            writes |-> <<>>]

NoCheck == [cursor |-> 0, mismatch |-> FALSE, wait |-> 0,
            reset |-> FALSE, rewrite |-> FALSE, at |-> 0]

\* the caller in ordinary context is in none of the driver's functions
Idle == [at |-> "idle", ticks |-> 0, want_start |-> FALSE]

NoResize == [resized |-> FALSE, irq_off |-> FALSE]

NoScale == [x_offset |-> 0, x_scale |-> 0, y_offset |-> 0, y_scale |-> 0,
            z_offset |-> 0, z_scale |-> 0]

\* fabsf()
fabsf(v) == IF v < 0 THEN -v ELSE v

\* default calibration: offsets 0, scales 1.0f
DefaultScale ==
    [x_offset |-> 0, x_scale |-> 1000000,
     y_offset |-> 0, y_scale |-> 1000000,
     z_offset |-> 0, z_scale |-> 1000000]

\* the observations are those of the last operation only
Fresh(d) == [d EXCEPT !.cyc = NoCycle, !.rst = NoReset, !.chk = NoCheck,
                      !.req = 0, !.mode = "", !.cal = NoScale, !.qd = NoResize]

Returned(d, op, ret) == [d EXCEPT !.op = op, !.ret = ret]

-----------------------------------------------------------------------------
(* Bus primitives *)

\* a faulty variant of read_reg() below: the register address is dropped
read_reg_first_register(d, reg) == d.chip[ICMREG_PWR_MGMT_1]

\* read_reg(): the sensor's current value of a checked register
read_reg(d, reg) == d.chip[reg]

\* a faulty variant of write_reg() below: the shadow value is written too
write_reg_shadowing(d, reg, value) ==
    LET d1 == IF reg = ICMREG_PWR_MGMT_1 /\ value = BIT_H_RESET
              THEN [d EXCEPT !.chip = ChipPowerOn]
              ELSE [d EXCEPT !.chip[reg] = value]
    IN  [d1 EXCEPT !._checked_values[reg] = value]

\* write_reg(): raw write; the reset bit of the power-management register
\* puts every register of the sensor back to its power-on value
write_reg(d, reg, value) ==
    IF reg = ICMREG_PWR_MGMT_1 /\ value = BIT_H_RESET
    THEN [d EXCEPT !.chip = ChipPowerOn]
    ELSE [d EXCEPT !.chip[reg] = value]

\* write_checked_reg(): raw write, then the shadow value of the register;
\* checked_writes notes the value of the call, rst.writes the calls in
\* their order
write_checked_reg(d, reg, value) ==
    LET d1 == write_reg(d, reg, value)
    IN  [d1 EXCEPT !._checked_values =
            [i \in CheckedIdx |-> IF i = reg THEN value ELSE d1._checked_values[i]],
                   !.checked_writes[reg] = value,
                   !.rst.writes = Append(@, <<reg, value>>)]

px4_enter_critical_section(d) == [d EXCEPT !.irq_off = TRUE]

px4_leave_critical_section(d, state) == [d EXCEPT !.irq_off = state]

-----------------------------------------------------------------------------
(* Calibration & range configurator *)

\* a faulty variant of the divider below: the upper clamp is missing
sample_rate_div_unclamped(desired_sample_rate_hz) ==
    LET hz == IF \/ desired_sample_rate_hz = 0
                 \/ desired_sample_rate_hz = GYRO_SAMPLERATE_DEFAULT
                 \/ desired_sample_rate_hz = ACCEL_SAMPLERATE_DEFAULT
              THEN ICM20602_GYRO_DEFAULT_RATE
              ELSE desired_sample_rate_hz
        div0 == (1000 \div hz) % 256
    IN  IF div0 < 1 THEN 1 ELSE div0

\* the divider _set_sample_rate() computes: uint8_t div = 1000 / desired
sample_rate_div(desired_sample_rate_hz) ==
    LET hz == IF \/ desired_sample_rate_hz = 0
                 \/ desired_sample_rate_hz = GYRO_SAMPLERATE_DEFAULT
                 \/ desired_sample_rate_hz = ACCEL_SAMPLERATE_DEFAULT
              THEN ICM20602_GYRO_DEFAULT_RATE
              ELSE desired_sample_rate_hz
        div0 == (1000 \div hz) % 256
        div1 == IF div0 > 200 THEN 200 ELSE div0
    IN  IF div1 < 1 THEN 1 ELSE div1

_set_sample_rate(d, desired_sample_rate_hz) ==
    LET div == sample_rate_div(desired_sample_rate_hz)
        d1  == write_checked_reg(d, ICMREG_SMPLRT_DIV, div - 1)
    IN  [d1 EXCEPT !._sample_rate = 1000 \div div]

\* a faulty variant of the ladder below: a request that equals a bucket is
\* given the next bucket
dlpf_filter_below(frequency_hz) ==
    IF frequency_hz = 0 THEN BITS_DLPF_CFG_4000HZ_NOLPF
    ELSE IF frequency_hz < 5 THEN BITS_DLPF_CFG_5HZ
    ELSE IF frequency_hz < 10 THEN BITS_DLPF_CFG_10HZ
    ELSE IF frequency_hz < 20 THEN BITS_DLPF_CFG_20HZ
    ELSE IF frequency_hz < 42 THEN BITS_DLPF_CFG_42HZ
    ELSE IF frequency_hz < 98 THEN BITS_DLPF_CFG_98HZ
    ELSE IF frequency_hz < 188 THEN BITS_DLPF_CFG_188HZ
    ELSE BITS_DLPF_CFG_4000HZ_NOLPF

\* the DLPF bucket for a requested cutoff
dlpf_filter(frequency_hz) ==
    IF frequency_hz = 0 THEN BITS_DLPF_CFG_4000HZ_NOLPF
    ELSE IF frequency_hz <= 5 THEN BITS_DLPF_CFG_5HZ
    ELSE IF frequency_hz <= 10 THEN BITS_DLPF_CFG_10HZ
    ELSE IF frequency_hz <= 20 THEN BITS_DLPF_CFG_20HZ
    ELSE IF frequency_hz <= 42 THEN BITS_DLPF_CFG_42HZ
    ELSE IF frequency_hz <= 98 THEN BITS_DLPF_CFG_98HZ
    ELSE IF frequency_hz <= 188 THEN BITS_DLPF_CFG_188HZ
    ELSE BITS_DLPF_CFG_4000HZ_NOLPF

\* a faulty variant of _set_dlpf_filter() below: the write is a raw one
_set_dlpf_filter_unchecked(d, frequency_hz) ==
    write_reg(d, ICMREG_CONFIG, dlpf_filter(frequency_hz % 65536))

_set_dlpf_filter(d, frequency_hz) ==
    write_checked_reg(d, ICMREG_CONFIG, dlpf_filter(frequency_hz % 65536))

\* a faulty variant of the ladder below: a request that equals a bucket is
\* given the next bucket
accel_range_at_or_above(max_g_in) ==
    IF max_g_in >= 8 THEN [afs_sel |-> 3, lsb_per_g |-> 2048, max_accel_g |-> 16]
    ELSE IF max_g_in >= 4 THEN [afs_sel |-> 2, lsb_per_g |-> 4096, max_accel_g |-> 8]
    ELSE IF max_g_in >= 2 THEN [afs_sel |-> 1, lsb_per_g |-> 8192, max_accel_g |-> 4]
    ELSE [afs_sel |-> 0, lsb_per_g |-> 16384, max_accel_g |-> 2]

\* afs_sel, lsb_per_g and max_accel_g for a requested range
\* _accel_range_scale is kept as the divisor of ICM20602_ONE_G (0: scale 0.0)
accel_range(max_g_in) ==
    IF max_g_in > 8 THEN [afs_sel |-> 3, lsb_per_g |-> 2048, max_accel_g |-> 16]
    ELSE IF max_g_in > 4 THEN [afs_sel |-> 2, lsb_per_g |-> 4096, max_accel_g |-> 8]
    ELSE IF max_g_in > 2 THEN [afs_sel |-> 1, lsb_per_g |-> 8192, max_accel_g |-> 4]
    ELSE [afs_sel |-> 0, lsb_per_g |-> 16384, max_accel_g |-> 2]

\* a faulty variant of set_accel_range() below: the accel calibration is put
\* back to its default
set_accel_range_recalibrating(d, max_g_in) ==
    LET r  == accel_range(max_g_in)
        d1 == write_checked_reg(d, ICMREG_ACCEL_CONFIG, r.afs_sel * 8)
    IN  [d1 EXCEPT !._accel_range_scale = r.lsb_per_g,
                   !._accel_range_m_s2 = r.max_accel_g * ICM20602_ONE_G,
                   !._accel_scale = DefaultScale,
                   !.ret = "OK"]

set_accel_range(d, max_g_in) ==
    LET r  == accel_range(max_g_in)
        d1 == write_checked_reg(d, ICMREG_ACCEL_CONFIG, r.afs_sel * 8)
    IN  [d1 EXCEPT !._accel_range_scale = r.lsb_per_g,
                   !._accel_range_m_s2 = r.max_accel_g * ICM20602_ONE_G,
                   !.ret = "OK"]

-----------------------------------------------------------------------------
(* Reset / bring-up protocol *)

\* What the sensor does in one attempt of reset():
\*   "ack_set"    the reset bit still reads as set after the settle delay
\*   "clock_ok"   the reset completed and the clock selection took effect
\*   "clock_bad"  the reset completed, the clock selection did not take
AttemptOutcomes == {"ack_set", "clock_ok", "clock_bad"}

\* the sensor's registers after the settle delay of an attempt
settled(d, outcome) ==
    IF outcome = "ack_set"
    THEN [d EXCEPT !.chip[ICMREG_PWR_MGMT_1] = BIT_H_RESET + 65]
    ELSE d

\* the sensor's registers after the clock-selection write of an attempt
selected(d, outcome) ==
    IF outcome = "clock_bad"
    THEN [d EXCEPT !.chip[ICMREG_PWR_MGMT_1] = ChipPowerOn[ICMREG_PWR_MGMT_1]]
    ELSE d

\* bitwise test (v & BIT_H_RESET) != 0 on a byte
h_reset_set(v) == (v \div BIT_H_RESET) % 2 = 1

\* the loop of reset(): tries is the value of the local before "--tries"
RECURSIVE reset_loop(_, _, _)
reset_loop(d, tries, outcomes) ==
    IF tries - 1 = 0 THEN d
    ELSE
      LET state == d.irq_off
          d1 == px4_enter_critical_section(
                    [d EXCEPT !.rst.attempts = @ + 1])
          d2 == settled(write_reg(d1, ICMREG_PWR_MGMT_1, BIT_H_RESET),
                        Head(outcomes))
      IN  IF h_reset_set(read_reg(d2, ICMREG_PWR_MGMT_1))
          THEN [d2 EXCEPT !.rst.failed = @ + 1]
          ELSE
            LET d3 == selected(
                          write_checked_reg(d2, ICMREG_PWR_MGMT_1, BITS_BESTCLOCK_PLL3),
                          Head(outcomes))
                d4 == px4_leave_critical_section(d3, state)
            IN  IF read_reg(d4, ICMREG_PWR_MGMT_1) = BITS_BESTCLOCK_PLL3
                THEN d4
                ELSE reset_loop([d4 EXCEPT !._reset_retries = @ + 1,
                                           !.rst.failed = @ + 1],
                                tries - 1, Tail(outcomes))

reset(d, outcomes) ==
    LET d0 == [d EXCEPT !.rst = [NoReset EXCEPT !.retries = d._reset_retries]]
        d1 == reset_loop(d0, 5, outcomes)
    IN  IF read_reg(d1, ICMREG_PWR_MGMT_1) # BITS_BESTCLOCK_PLL3
        THEN Returned(d1, "reset", "-EIO")
        ELSE
          LET d2 == _set_sample_rate(d1, d1._sample_rate)
              d3 == _set_dlpf_filter(d2, ICM20602_DEFAULT_ONCHIP_FILTER_FREQ)
              d4 == write_checked_reg(d3, ICMREG_GYRO_CONFIG, BITS_FS_2000DPS)
              d5 == [d4 EXCEPT !._gyro_range_scale = "0.0174532/16.4",
                               !._gyro_range_rad_s = "2000/180*PI"]
              d6 == set_accel_range(d5, 8)
              d7 == write_checked_reg(d6, ICMREG_INT_ENABLE, BIT_DATA_RDY_INT_EN)
              d8 == write_checked_reg(d7, ICMREG_INT_PIN_CFG, BIT_INT_ANYRD_2CLEAR)
          IN  Returned([d8 EXCEPT !.rst.configured = TRUE], "reset", "OK")

-----------------------------------------------------------------------------
(* Register health monitor *)

\* a faulty variant of the test below: both conditions are asked for
needs_full_reset_both(d) == d._register_wait = 0 /\ d._checked_next = 0

\* a faulty variant of the test below: the wait counter is not looked at
needs_full_reset_cursor_only(d) == d._checked_next = 0

\* the test that chooses between the chip reset and the single-register rewrite
needs_full_reset(d) == d._register_wait = 0 \/ d._checked_next = 0

\* what check_registers() does once the value read differs from the shadow
fix_bad_register(d, t) ==
    LET d1 == [d EXCEPT !._bad_registers = @ + 1]
        d2 == IF needs_full_reset(d1)
              THEN [write_reg(d1, ICMREG_PWR_MGMT_1, BIT_H_RESET)
                        EXCEPT !._reset_wait = t + 10000,
                               !._checked_next = 0,
                               !.chk.reset = TRUE]
              ELSE [write_reg(d1, d1._checked_next, d1._checked_values[d1._checked_next])
                        EXCEPT !._reset_wait = t + 3000,
                               !.chk.rewrite = TRUE]
    IN  [d2 EXCEPT !._register_wait = 20]

check_registers(d, t) ==
    LET d0 == [d EXCEPT !.chk = [cursor |-> d._checked_next,
                                 mismatch |-> read_reg(d, d._checked_next)
                                                # d._checked_values[d._checked_next],
                                 wait |-> d._register_wait,
                                 reset |-> FALSE, rewrite |-> FALSE, at |-> t]]
        d1 == IF read_reg(d0, d0._checked_next) # d0._checked_values[d0._checked_next]
              THEN fix_bad_register(d0, t)
              ELSE d0
    IN  Returned([d1 EXCEPT !._checked_next =
                      (@ + 1) % ICM20602_NUM_CHECKED_REGISTERS],
                 "check_registers", "OK")

-----------------------------------------------------------------------------
(* Measurement pipeline *)

\* a faulty variant of the test below: the sense of the flag is inverted
is_duplicate_flag_inverted(d, raw) ==
    d._got_duplicate /\ AccelBytes(raw) = d._last_accel

\* a faulty variant of the test below: the flag is not looked at
is_duplicate_flag_ignored(d, raw) == AccelBytes(raw) = d._last_accel

\* the duplicate test on the first 6 bytes of the transfer
is_duplicate(d, raw) == ~d._got_duplicate /\ AccelBytes(raw) = d._last_accel

\* the seven fields in host byte order
Report(raw) ==
    [accel_x |-> int16_t_from_bytes(raw.accel_x),
     accel_y |-> int16_t_from_bytes(raw.accel_y),
     accel_z |-> int16_t_from_bytes(raw.accel_z),
     temp    |-> int16_t_from_bytes(raw.temp),
     gyro_x  |-> int16_t_from_bytes(raw.gyro_x),
     gyro_y  |-> int16_t_from_bytes(raw.gyro_y),
     gyro_z  |-> int16_t_from_bytes(raw.gyro_z)]

\* a faulty variant of the test below: only the accel fields are looked at
all_zero_accel_only(report) ==
    report.accel_x = 0 /\ report.accel_y = 0 /\ report.accel_z = 0

\* the zero-data test
all_zero(report) ==
    /\ report.accel_x = 0 /\ report.accel_y = 0 /\ report.accel_z = 0
    /\ report.temp = 0
    /\ report.gyro_x = 0 /\ report.gyro_y = 0 /\ report.gyro_z = 0

\* a faulty variant of the test below: the sense of the test is inverted
still_waiting_inverted(d) == d._register_wait = 0

\* the test that keeps the reports back after a register mismatch
still_waiting(d) == d._register_wait # 0

\* a faulty variant of the swap below: the negation wraps around in 16 bits
swap_axes_wrapping(x, y) == [x |-> y, y |-> IF x = -32768 THEN -32768 ELSE -x]

\* swap of the axes, y negated with saturation
swap_axes(x, y) == [x |-> y, y |-> IF x = -32768 THEN 32767 ELSE -x]

\* a faulty variant of emit() below: the gyro report is published when the
\* accel window closed
emit_gyro_with_accel(d, t, raw, accel_notify, gyro_notify) ==
    LET report == Report(raw)
        a   == swap_axes(report.accel_x, report.accel_y)
        g   == swap_axes(report.gyro_x, report.gyro_y)
        err == d._bad_transfers + d._bad_registers
        arb == [timestamp |-> t, error_count |-> err,
                x_raw |-> a.x, y_raw |-> a.y, z_raw |-> report.accel_z]
        grb == [timestamp |-> t, error_count |-> err,
                x_raw |-> g.x, y_raw |-> g.y, z_raw |-> report.gyro_z]
    IN  [d EXCEPT !._accel_reports = force(@, d._accel_size, arb),
                  !._gyro_reports = force(@, d._gyro_size, grb),
                  !._sample_perf = 1,
                  !.cyc = [Cycle("full", raw, TRUE,
                                 accel_notify /\ ~d._pub_blocked,
                                 accel_notify /\ ~d._pub_blocked)
                              EXCEPT !.win_accel = accel_notify,
                                     !.win_gyro = gyro_notify]]

\* the tail of measure(): both reports are built, pushed and published
emit(d, t, raw, accel_notify, gyro_notify) ==
    LET report == Report(raw)
        a   == swap_axes(report.accel_x, report.accel_y)
        g   == swap_axes(report.gyro_x, report.gyro_y)
        err == d._bad_transfers + d._bad_registers
        arb == [timestamp |-> t, error_count |-> err,
                x_raw |-> a.x, y_raw |-> a.y, z_raw |-> report.accel_z]
        grb == [timestamp |-> t, error_count |-> err,
                x_raw |-> g.x, y_raw |-> g.y, z_raw |-> report.gyro_z]
    IN  [d EXCEPT !._accel_reports = force(@, d._accel_size, arb),
                  !._gyro_reports = force(@, d._gyro_size, grb),
                  !._sample_perf = 1,
                  !.cyc = [Cycle("full", raw, TRUE,
                                 accel_notify /\ ~d._pub_blocked,
                                 gyro_notify /\ ~d._pub_blocked)
                              EXCEPT !.win_accel = accel_notify,
                                     !.win_gyro = gyro_notify]]

\* measure() from the duplicate test on, with the transfer raw at hand
process(d, t, raw, accel_notify, gyro_notify) ==
    IF is_duplicate(d, raw)
    THEN Returned([d EXCEPT !._duplicates = @ + 1,
                            !._sample_perf = 1,
                            !._got_duplicate = TRUE,
                            !.cyc = Cycle("dup", raw, FALSE, FALSE, FALSE)],
                  "measure", "OK")
    ELSE
      LET d1 == [d EXCEPT !._last_accel = AccelBytes(raw),
                          !._got_duplicate = FALSE]
      IN  IF all_zero(Report(raw))
          THEN Returned([d1 EXCEPT !._bad_transfers = @ + 1,
                                   !._sample_perf = 1,
                                   !.cyc = Cycle("zero", raw, FALSE, FALSE, FALSE)],
                        "measure", "-EIO")
          ELSE
            LET d2 == d1   \* perf_count(_good_transfers)
            IN  IF still_waiting(d2)
                THEN Returned([d2 EXCEPT !._register_wait = @ - 1,
                                         !.cyc = Cycle("wait", raw, FALSE, FALSE, FALSE)],
                              "measure", "OK")
                ELSE Returned(emit(d2, t, raw, accel_notify, gyro_notify),
                              "measure", "OK")

\* a faulty variant of measure() below: the self-test flag is not looked at
measure_during_self_test(d, t, xfer_ok, raw, accel_notify, gyro_notify) ==
    IF t < d._reset_wait
    THEN Returned([d EXCEPT !.cyc = Cycle("guard", NoSample, FALSE, FALSE, FALSE)],
                  "measure", "OK")
    ELSE IF ~xfer_ok
    THEN Returned([d EXCEPT !.cyc = Cycle("xfer", NoSample, FALSE, FALSE, FALSE)],
                  "measure", "-EIO")
    ELSE process(d, t, raw, accel_notify, gyro_notify)

\* measure(): t is hrt_absolute_time(), xfer_ok whether the bus delivered a
\* whole transfer, raw the bytes it delivered, accel_notify and gyro_notify
\* what the two integrators answer
measure(d, t, xfer_ok, raw, accel_notify, gyro_notify) ==
    IF d._in_factory_test \/ t < d._reset_wait
    THEN Returned([d EXCEPT !.cyc = Cycle("guard", NoSample, FALSE, FALSE, FALSE)],
                  "measure", "OK")
    ELSE IF ~xfer_ok
    THEN Returned([d EXCEPT !.cyc = Cycle("xfer", NoSample, FALSE, FALSE, FALSE)],
                  "measure", "-EIO")
    ELSE process(d, t, raw, accel_notify, gyro_notify)

\* measure() with the call of check_registers() that the driver has
\* commented out, at the place of the comment: after the transfer, before
\* the duplicate test
monitored_measure(d, t, xfer_ok, raw, accel_notify, gyro_notify) ==
    IF d._in_factory_test \/ t < d._reset_wait \/ ~xfer_ok
    THEN measure(d, t, xfer_ok, raw, accel_notify, gyro_notify)
    ELSE process(check_registers(d, t), t, raw, accel_notify, gyro_notify)

-----------------------------------------------------------------------------
(* Start and stop of the periodic sampling *)

\* a faulty variant of stop() below: the timer is left registered
stop_without_cancel(d) ==
    [d EXCEPT !._last_accel = ZeroAccel,
              !._accel_reports = <<>>,
              !._gyro_reports = <<>>]

\* stop(): cancel the timer, zero the latch, flush both buffers
stop(d) ==
    [d EXCEPT !._call.armed = FALSE,
              !._last_accel = ZeroAccel,
              !._accel_reports = <<>>,
              !._gyro_reports = <<>>]

\* a faulty variant of start() below: the period is the call interval
start_at_call_interval(d) ==
    LET d1 == stop(d)
    IN  [d1 EXCEPT !._accel_reports = <<>>,
                   !._gyro_reports = <<>>,
                   !._call = [armed |-> TRUE, period |-> d1._call_interval]]

\* start(): stop(), flush, register the timer callback
start(d) ==
    LET d1 == stop(d)
    IN  [d1 EXCEPT !._accel_reports = <<>>,
                   !._gyro_reports = <<>>,
                   !._call = [armed |-> TRUE,
                              period |-> d1._call_interval - ICM20602_TIMER_REDUCTION]]

-----------------------------------------------------------------------------
(* Device-node operations *)

\* LowPassFilter2p::set_cutoff_frequency(1.0e6f / ticks, cutoff)
set_cutoff_frequency(ticks, cutoff_freq) ==
    [sample_us |-> ticks, cutoff_freq |-> cutoff_freq]

\* a faulty variant of the operator below: the rate is checked after the
\* filters and the interval have been set
set_poll_rate_hz_checked_late(d, arg) ==
    LET ticks == 1000000 \div arg
        d1 == _set_dlpf_filter(d, d._accel_filter.cutoff_freq)
        d2 == [d1 EXCEPT !._accel_filter =
                  set_cutoff_frequency(ticks, d._accel_filter.cutoff_freq),
                         !._gyro_filter =
                  set_cutoff_frequency(ticks, d._gyro_filter.cutoff_freq),
                         !._call_interval = ticks,
                         !._call.period = ticks - ICM20602_TIMER_REDUCTION]
    IN  IF ticks < 1000 THEN Returned(d2, "pollrate", "-EINVAL")
        ELSE Returned(IF d._call_interval = 0 THEN start(d2) ELSE d2, "pollrate", "OK")

\* ioctl(SENSORIOCSPOLLRATE, arg) with arg a rate in Hz
set_poll_rate_hz(d, arg) ==
    LET want_start == d._call_interval = 0
        ticks == 1000000 \div arg
    IN  IF ticks < 1000 THEN Returned(d, "pollrate", "-EINVAL")
        ELSE
          LET d1 == _set_dlpf_filter(d, d._accel_filter.cutoff_freq)
              d2 == [d1 EXCEPT !._accel_filter =
                        set_cutoff_frequency(ticks, d._accel_filter.cutoff_freq)]
              d3 == _set_dlpf_filter(d2, d._gyro_filter.cutoff_freq)
              d4 == [d3 EXCEPT !._gyro_filter =
                        set_cutoff_frequency(ticks, d._gyro_filter.cutoff_freq),
                               !._call_interval = ticks,
                               !._call.period = ticks - ICM20602_TIMER_REDUCTION]
          IN  Returned(IF want_start THEN start(d4) ELSE d4, "pollrate", "OK")

\* ioctl(SENSORIOCSPOLLRATE, arg): arg is one of the SENSOR_POLLRATE_*
\* values (mode) or a rate in Hz (mode "hz")
set_poll_rate(d, mode, arg) ==
    IF mode = "MANUAL"
    THEN Returned([stop(d) EXCEPT !._call_interval = 0], "pollrate", "OK")
    ELSE IF mode = "EXTERNAL" \/ (mode = "hz" /\ arg = 0) THEN Returned(d, "pollrate", "-EINVAL")
    ELSE IF mode = "MAX" THEN set_poll_rate_hz(d, 1000)
    ELSE IF mode = "DEFAULT" THEN set_poll_rate_hz(d, ICM20602_ACCEL_DEFAULT_RATE)
    ELSE set_poll_rate_hz(d, arg)

\* ioctl(SENSORIOCSPOLLRATE, arg) statement by statement.  pc.at names the
\* statement the caller executes next; the first step reads the argument
\* and returns at once where the code returns without a write.
poll_rate_begin(d, mode, arg) ==
    IF mode = "MANUAL" THEN [d EXCEPT !.pc.at = "manual_stop"]
    ELSE IF mode = "EXTERNAL" \/ (mode = "hz" /\ arg = 0)
    THEN Returned(d, "pollrate", "-EINVAL")
    ELSE
      LET hz == IF mode = "MAX" THEN 1000
                ELSE IF mode = "DEFAULT" THEN ICM20602_ACCEL_DEFAULT_RATE
                ELSE arg
          ticks == 1000000 \div hz
      IN  IF ticks < 1000 THEN Returned(d, "pollrate", "-EINVAL")
          ELSE [d EXCEPT !.pc = [at |-> "filters", ticks |-> ticks,
                                 want_start |-> d._call_interval = 0]]

\* the statement at pc.at
poll_rate_step(d) ==
    CASE d.pc.at = "manual_stop" ->
            [stop(d) EXCEPT !.pc.at = "manual_interval"]
      [] d.pc.at = "manual_interval" ->
            Returned([d EXCEPT !._call_interval = 0, !.pc = Idle], "pollrate", "OK")
      [] d.pc.at = "filters" ->
            LET d1 == _set_dlpf_filter(d, d._accel_filter.cutoff_freq)
                d2 == [d1 EXCEPT !._accel_filter =
                          set_cutoff_frequency(d.pc.ticks, d._accel_filter.cutoff_freq)]
                d3 == _set_dlpf_filter(d2, d._gyro_filter.cutoff_freq)
            IN  [d3 EXCEPT !._gyro_filter =
                          set_cutoff_frequency(d.pc.ticks, d._gyro_filter.cutoff_freq),
                           !.pc.at = "interval"]
      [] d.pc.at = "interval" ->
            [d EXCEPT !._call_interval = d.pc.ticks, !.pc.at = "period"]
      [] d.pc.at = "period" ->
            LET d1 == [d EXCEPT !._call.period = d._call_interval - ICM20602_TIMER_REDUCTION]
            IN  IF d.pc.want_start THEN [d1 EXCEPT !.pc.at = "start_stop"]
                ELSE Returned([d1 EXCEPT !.pc = Idle], "pollrate", "OK")
      [] d.pc.at = "start_stop" ->
            [stop(d) EXCEPT !.pc.at = "start_arm"]
      [] d.pc.at = "start_arm" ->
            Returned([d EXCEPT !._accel_reports = <<>>,
                               !._gyro_reports = <<>>,
                               !._call = [armed |-> TRUE,
                                          period |-> d._call_interval - ICM20602_TIMER_REDUCTION],
                               !.pc = Idle],
                     "pollrate", "OK")

\* the positions of set-poll-rate at which a part of the mutation is done
\* and a part is to come
MidMutation == {"manual_interval", "interval", "period", "start_stop", "start_arm"}

\* a faulty variant of the test below: the two limits are accepted
scale_sum_ok_inclusive(sum) == sum >= 2000000 /\ sum <= 4000000

\* the test ACCELIOCSSCALE applies to the sum of the three scales
\* (floats in millionths: 2.0f is 2000000)
scale_sum_ok(sum) == sum > 2000000 /\ sum < 4000000

\* ioctl(ACCELIOCSSCALE, s)
set_accel_scale(d, s) ==
    IF scale_sum_ok(s.x_scale + s.y_scale + s.z_scale)
    THEN Returned([d EXCEPT !._accel_scale = s], "accel_scale", "OK")
    ELSE Returned(d, "accel_scale", "-EINVAL")

\* gyro_ioctl(GYROIOCSSCALE, s): the calibration is copied in as it is
set_gyro_scale(d, s) ==
    Returned([d EXCEPT !._gyro_scale = s], "gyro_scale", "OK")

\* ioctl(ACCELIOCSSAMPLERATE, arg)
set_sample_rate(d, arg) ==
    Returned([_set_sample_rate(d, arg) EXCEPT !.req = arg], "sample_rate", "OK")

\* RingBuffer::resize(): a new, empty buffer of the given capacity; qd notes
\* whether interrupts were disabled while the buffer was replaced
resize(d, node, new_size) ==
    LET d1 == IF node = "accel"
              THEN [d EXCEPT !._accel_reports = <<>>, !._accel_size = new_size]
              ELSE [d EXCEPT !._gyro_reports = <<>>, !._gyro_size = new_size]
    IN  [d1 EXCEPT !.qd = [resized |-> TRUE, irq_off |-> d.irq_off]]

\* a faulty variant of the test below: the lower limit is missing
queue_depth_ok_upper_only(arg) == arg <= 100

\* the test SENSORIOCSQUEUEDEPTH applies to its argument
queue_depth_ok(arg) == ~((arg < 1) \/ (arg > 100))

\* ioctl(SENSORIOCSQUEUEDEPTH, arg) on the accel node, and gyro_ioctl() of
\* the same on the gyro node; alloc_ok is whether the allocation succeeds
set_queue_depth(d, node, arg, alloc_ok) ==
    LET d0 == [d EXCEPT !.req = arg, !.mode = node]
    IN  IF ~queue_depth_ok(arg) THEN Returned(d0, "queue_depth", "-EINVAL")
        ELSE
          LET flags == d0.irq_off
              d1 == px4_enter_critical_section(d0)
          IN  IF ~alloc_ok
              THEN Returned(px4_leave_critical_section(d1, flags), "queue_depth", "-ENOMEM")
              ELSE Returned(px4_leave_critical_section(resize(d1, node, arg), flags),
                            "queue_depth", "OK")

\* ioctl(SENSORIOCGQUEUEDEPTH): RingBuffer::size()
get_queue_depth(d, node) == IF node = "accel" THEN d._accel_size ELSE d._gyro_size

\* ioctl(ACCELIOCSLOWPASS, arg): hardware filter, then the software filters
set_accel_lowpass(d, arg) ==
    LET d1 == _set_dlpf_filter(d, arg)
    IN  Returned([d1 EXCEPT !._accel_filter = set_cutoff_frequency(d._call_interval, arg),
                            !.req = arg],
                 "accel_lowpass", "OK")

\* gyro_ioctl(GYROIOCSLOWPASS, arg)
set_gyro_lowpass(d, arg) ==
    LET d1 == _set_dlpf_filter(d, arg)
    IN  Returned([d1 EXCEPT !._gyro_filter = set_cutoff_frequency(d._call_interval, arg),
                            !.req = arg],
                 "gyro_lowpass", "OK")

\* ioctl(ACCELIOCSRANGE, arg)
ioctl_set_accel_range(d, arg) ==
    LET d1 == set_accel_range(d, arg)
    IN  Returned([d1 EXCEPT !.req = arg], "accel_range", d1.ret)

\* ioctl(ACCELIOCGRANGE): (unsigned long)(_accel_range_m_s2 / ICM20602_ONE_G + 0.5f)
ioctl_get_accel_range(d) ==
    (2 * d._accel_range_m_s2 + ICM20602_ONE_G) \div (2 * ICM20602_ONE_G)

\* read() on the accel node with room for one report
read(d, t, xfer_ok, raw, accel_notify, gyro_notify) ==
    LET d1 == IF d._call_interval = 0
              THEN measure([d EXCEPT !._accel_reports = <<>>],
                           t, xfer_ok, raw, accel_notify, gyro_notify)
              ELSE d
    IN  IF d1._accel_reports = <<>>
        THEN Returned(d1, "read", "-EAGAIN")
        ELSE Returned([d1 EXCEPT !._accel_reports = get(@)], "read", "1")

\* read() on the gyro node with room for one report
gyro_read(d, t, xfer_ok, raw, accel_notify, gyro_notify) ==
    LET d1 == IF d._call_interval = 0
              THEN measure([d EXCEPT !._gyro_reports = <<>>],
                           t, xfer_ok, raw, accel_notify, gyro_notify)
              ELSE d
    IN  IF d1._gyro_reports = <<>>
        THEN Returned(d1, "gyro_read", "-EAGAIN")
        ELSE Returned([d1 EXCEPT !._gyro_reports = get(@)], "gyro_read", "1")

\* init(): probe, buffers of two reports, reset(), one measurement whose
\* reports are taken out of the buffers again for the advertisement
init(d, who_ok, outcomes, t, xfer_ok, raw, accel_notify, gyro_notify) ==
    IF ~who_ok THEN Returned(d, "init", "-EIO")
    ELSE
      LET d1 == [d EXCEPT !._accel_reports = <<>>, !._accel_size = 2,
                          !._gyro_reports = <<>>, !._gyro_size = 2]
          d2 == reset(d1, outcomes)
      IN  IF d2.ret # "OK" THEN Returned(d2, "init", "-EIO")
          ELSE
            LET d3 == [d2 EXCEPT !._accel_scale = DefaultScale,
                                 !._gyro_scale = DefaultScale]
                d4 == measure(d3, t, xfer_ok, raw, accel_notify, gyro_notify)
            IN  Returned([d4 EXCEPT !._accel_reports = get(@),
                                    !._gyro_reports = get(@)],
                         "init", "OK")

-----------------------------------------------------------------------------
(* Self-tests.  Offsets and scales are floats kept in millionths: 1.0f is  *)
(* 1000000, 0.000001f is 1.                                                *)

\* self_test(): one measurement if none has been timed yet
self_test(d, t, xfer_ok, raw, accel_notify, gyro_notify) ==
    LET d1 == IF d._sample_perf = 0
              THEN measure(d, t, xfer_ok, raw, accel_notify, gyro_notify)
              ELSE d
    IN  [d1 EXCEPT !.ret = IF d1._sample_perf > 0 THEN "0" ELSE "1"]

\* a faulty variant of the test below: an offset of 0.000001 counts as zero
accel_axis_bad_inclusive(offset, scale) ==
    \/ fabsf(offset) <= 1
    \/ fabsf(scale - 1000000) > 400000
    \/ fabsf(scale - 1000000) < 1

\* the two tests accel_self_test() applies to one axis
accel_axis_bad(offset, scale) ==
    \/ fabsf(offset) < 1
    \/ fabsf(scale - 1000000) > 400000
    \/ fabsf(scale - 1000000) < 1

accel_self_test(d, t, xfer_ok, raw, accel_notify, gyro_notify) ==
    LET d1 == self_test(d, t, xfer_ok, raw, accel_notify, gyro_notify)
        s  == d1._accel_scale
    IN  IF d1.ret # "0" THEN Returned(d1, "accel_self_test", "1")
        ELSE IF accel_axis_bad(s.x_offset, s.x_scale) THEN Returned(d1, "accel_self_test", "1")
        ELSE IF accel_axis_bad(s.y_offset, s.y_scale) THEN Returned(d1, "accel_self_test", "1")
        ELSE IF accel_axis_bad(s.z_offset, s.z_scale) THEN Returned(d1, "accel_self_test", "1")
        ELSE Returned(d1, "accel_self_test", "0")

\* a faulty variant of the test below: the scale error is compared with the
\* limit of the accel self-test
gyro_axis_bad_accel_limit(offset, scale) ==
    \/ fabsf(offset) > 340000
    \/ fabsf(scale - 1000000) > 400000

\* the two tests gyro_self_test() applies to one axis: max_offset = 0.34f,
\* max_scale = 0.3f
gyro_axis_bad(offset, scale) ==
    \/ fabsf(offset) > 340000
    \/ fabsf(scale - 1000000) > 300000

gyro_self_test(d, t, xfer_ok, raw, accel_notify, gyro_notify) ==
    LET d1 == self_test(d, t, xfer_ok, raw, accel_notify, gyro_notify)
        s  == d1._gyro_scale
    IN  IF d1.ret # "0" THEN Returned(d1, "gyro_self_test", "1")
        ELSE IF gyro_axis_bad(s.x_offset, s.x_scale) THEN Returned(d1, "gyro_self_test", "1")
        ELSE IF gyro_axis_bad(s.y_offset, s.y_scale) THEN Returned(d1, "gyro_self_test", "1")
        ELSE IF gyro_axis_bad(s.z_offset, s.z_scale) THEN Returned(d1, "gyro_self_test", "1")
        ELSE IF fabsf(s.x_offset) < 1 /\ fabsf(s.y_offset) < 1 /\ fabsf(s.z_offset) < 1
        THEN Returned(d1, "gyro_self_test", "1")
        ELSE Returned(d1, "gyro_self_test", "0")

-----------------------------------------------------------------------------
(* The state after construction *)

Constructed(checked_values) ==
    [chip |-> ChipPowerOn,
     irq_off |-> FALSE,
     _call |-> [armed |-> FALSE, period |-> 0],
     _call_interval |-> 0,
     _accel_reports |-> <<>>, _accel_size |-> 0,
     _gyro_reports |-> <<>>, _gyro_size |-> 0,
     _accel_scale |-> DefaultScale,
     _accel_range_scale |-> 0, _accel_range_m_s2 |-> 0,
     _gyro_scale |-> DefaultScale,
     _gyro_range_scale |-> "0", _gyro_range_rad_s |-> "0",
     _sample_rate |-> 1000,
     _bad_transfers |-> 0, _bad_registers |-> 0,
     _reset_retries |-> 0, _duplicates |-> 0,
     \* perf_event_count(_sample_perf), followed up to 1: the driver only
     \* compares it with 0
     _sample_perf |-> 0,
     _register_wait |-> 0, _reset_wait |-> 0,
     _accel_filter |-> [sample_us |-> 1000000 \div ICM20602_ACCEL_DEFAULT_RATE,
                        cutoff_freq |-> ICM20602_ACCEL_DEFAULT_DRIVER_FILTER_FREQ],
     _gyro_filter |-> [sample_us |-> 1000000 \div ICM20602_GYRO_DEFAULT_RATE,
                       cutoff_freq |-> ICM20602_GYRO_DEFAULT_DRIVER_FILTER_FREQ],
     _checked_values |-> checked_values,
     _checked_next |-> 0,
     _in_factory_test |-> FALSE,
     _last_accel |-> ZeroAccel,
     _got_duplicate |-> FALSE,
     _pub_blocked |-> FALSE,
     \* observation
     op |-> "new", ret |-> "OK", cyc |-> NoCycle,
     rst |-> NoReset, chk |-> NoCheck,
     run |-> 0, awaiting |-> FALSE, req |-> 0, mode |-> "", cal |-> NoScale,
     qd |-> NoResize,
     \* where the caller in ordinary context stands, and its locals
     pc |-> Idle,
     \* book-keeping of the model; checked_writes: the value of the last call
     \* of write_checked_reg() for each checked register, -1 without a call
     corrupted |-> FALSE, cycles |-> 0,
     checked_writes |-> [i \in CheckedIdx |-> -1]]

Init ==
    /\ \E cv \in [CheckedIdx -> UninitVals] : icm = Constructed(cv)
    /\ now = 0
    /\ phase = "constructed"

\* the event counters stay within the caps of the model
WithinCaps(d) ==
    /\ d._bad_transfers <= MaxCount
    /\ d._duplicates <= MaxCount
    /\ d._reset_retries <= MaxRetries

\* the cycles with a good transfer, and the cycles that push reports
GoodCycles == {"wait", "full"}
PushCycles == {"full"}

\* what the sensor may answer during one call of reset()
ResetOutcomes == [1 .. 4 -> AttemptOutcomes]

\* a sensor that comes up at the first attempt
CleanReset == [i \in 1 .. 4 |-> "clock_ok"]

\* one ordinary sample, and the two ordinary samples
OneSample == {ICMReport(256, -2, 3, 40, 5, -6, 7)}
GoodSamples == OneSample \cup {ICMReport(-32768, 2, 3, 40, -32768, 6, 7)}

\* the all-zero transfer and the two ordinary samples
HMSamples == GoodSamples \cup {ICMReport(0, 0, 0, 0, 0, 0, 0)}

-----------------------------------------------------------------------------
(* Actions.  The operations that take data from the environment are        *)
(* written once, with the sets the data is drawn from as parameters.       *)

\* TickUs of time pass while the driver waits for a deadline.  Time is kept
\* relative to the present here: the clock stays where it is and the
\* deadline comes closer, so that time can pass without an end.
Elapse ==
    /\ phase = "ready"
    /\ icm._reset_wait > now
    /\ icm' = [icm EXCEPT !._reset_wait =
                  IF @ - now > TickUs THEN @ - TickUs ELSE now]
    /\ UNCHANGED <<now, phase>>

\* time passes
Tick ==
    /\ now + TickUs <= MaxTicks * TickUs
    /\ now' = now + TickUs
    /\ UNCHANGED <<icm, phase>>

\* a bus glitch or brown-out changes one configuration register of the
\* sensor; the environment of the model does so once
CorruptIn(Regs) ==
    /\ phase = "ready"
    /\ ~icm.corrupted
    /\ \E i \in Regs, v \in CorruptVals :
          /\ v # icm.chip[i]
          /\ icm' = [Fresh(icm) EXCEPT !.chip[i] = v, !.corrupted = TRUE,
                                       !.op = "corrupt"]
    /\ UNCHANGED <<now, phase>>

\* Book-keeping after a measurement cycle that started in state old and
\* ended in state d.  cycles counts the cycles whose kind is in counted, of
\* which the model follows a limited number.  With track set, awaiting tells that a
\* mismatch was detected and no report has been pushed since, and run counts
\* the successful cycles in a row since the detection or the last failed
\* cycle.
Account(old, d, counted, track) ==
    [d EXCEPT !.cycles = IF d.cyc.kind \in counted THEN old.cycles + 1 ELSE old.cycles,
              !.run = IF ~track \/ ~old.awaiting THEN 0
                      ELSE IF d.cyc.kind \in {"xfer", "zero"} THEN 0
                      ELSE IF d.cyc.kind = "wait" THEN (IF old.run < 20 THEN old.run + 1 ELSE old.run)
                      ELSE IF d.cyc.kind = "full" THEN 0
                      ELSE old.run,
              !.awaiting = track /\ old.awaiting /\ d.cyc.kind # "full"]

WithinBudget(d, budget) == d.cycles <= budget

\* icm20602::start(): the driver is brought up
BringUp(Who, Outcomes, Xfer, Raws, Notify) ==
    /\ phase = "constructed"
    /\ \E who_ok \in Who, outcomes \in Outcomes, xfer_ok \in Xfer,
          raw \in Raws, an \in Notify, gn \in Notify :
          /\ icm' = init(Fresh(icm), who_ok, outcomes, now, xfer_ok, raw, an, gn)
          /\ WithinCaps(icm')
          /\ phase' = IF icm'.ret = "OK" THEN "ready" ELSE "failed"
    /\ UNCHANGED now

\* the periodic timer calls measure_trampoline(), from the timer interrupt
TimerMeasureOf(Xfer, Raws, Notify, counted, budget, track) ==
    /\ phase = "ready"
    /\ icm._call.armed /\ ~icm.irq_off
    /\ \E xfer_ok \in Xfer, raw \in Raws, an \in Notify, gn \in Notify :
          /\ icm' = Account(icm, measure(Fresh(icm), now, xfer_ok, raw, an, gn),
                            counted, track)
          /\ WithinCaps(icm')
          /\ WithinBudget(icm', budget)
    /\ UNCHANGED <<now, phase>>

\* the periodic timer calls measure_trampoline(), measure() calls
\* check_registers().  The event counters are followed up to their caps.
MonitoredMeasureOf(Raws) ==
    /\ phase = "ready"
    /\ icm._call.armed /\ ~icm.irq_off
    /\ \E raw \in Raws :
          LET d == monitored_measure(Fresh(icm), now, TRUE, raw, TRUE, TRUE)
          IN  icm' = [d EXCEPT
                        !._bad_registers = IF @ > MaxBadRegs THEN MaxBadRegs ELSE @,
                        !._duplicates = IF @ > MaxCount THEN MaxCount ELSE @,
                        !._bad_transfers = IF @ > MaxCount THEN MaxCount ELSE @]
    /\ UNCHANGED <<now, phase>>

\* read() on the accel node
ReadOf(Xfer, Raws, Notify, counted, budget, track) ==
    /\ phase = "ready"
    /\ \E xfer_ok \in Xfer, raw \in Raws, an \in Notify, gn \in Notify :
          /\ icm' = Account(icm, read(Fresh(icm), now, xfer_ok, raw, an, gn),
                            counted, track)
          /\ WithinCaps(icm')
          /\ WithinBudget(icm', budget)
    /\ UNCHANGED <<now, phase>>

\* read() on the gyro node
GyroReadOf(Xfer, Raws, Notify, counted, budget, track) ==
    /\ phase = "ready"
    /\ \E xfer_ok \in Xfer, raw \in Raws, an \in Notify, gn \in Notify :
          /\ icm' = Account(icm, gyro_read(Fresh(icm), now, xfer_ok, raw, an, gn),
                            counted, track)
          /\ WithinCaps(icm')
          /\ WithinBudget(icm', budget)
    /\ UNCHANGED <<now, phase>>

\* ioctl(SENSORIOCSPOLLRATE)
SetPollRateIn(Modes, Rates) ==
    /\ phase = "ready"
    /\ \E mode \in Modes, arg \in Rates :
          icm' = [set_poll_rate(Fresh(icm), mode, arg) EXCEPT
                     !.mode = mode, !.req = IF mode = "hz" THEN arg ELSE 0]
    /\ UNCHANGED <<now, phase>>

\* ioctl(SENSORIOCSPOLLRATE) is entered ...
PollRateBegin(Modes, Rates) ==
    /\ phase = "ready"
    /\ icm.pc.at = "idle"
    /\ \E mode \in Modes, arg \in Rates :
          icm' = [poll_rate_begin(Returned(Fresh(icm), "pollrate", "pending"), mode, arg)
                     EXCEPT !.mode = mode, !.req = IF mode = "hz" THEN arg ELSE 0]
    /\ UNCHANGED <<now, phase>>

\* ... and executes its next statement
PollRateStep ==
    /\ phase = "ready"
    /\ icm.pc.at \in {"manual_stop", "filters"} \cup MidMutation
    /\ icm' = [poll_rate_step(Returned(Fresh(icm), "pollrate", "pending"))
                  EXCEPT !.mode = icm.mode, !.req = icm.req]
    /\ UNCHANGED <<now, phase>>

\* read() on the accel node finds the call interval at 0 and empties the
\* buffer ...
ReadBegin ==
    /\ phase = "ready"
    /\ icm.pc.at = "idle"
    /\ icm._call_interval = 0
    /\ icm' = [Returned(Fresh(icm), "read", "pending") EXCEPT
                  !._accel_reports = <<>>, !.pc.at = "read_measure"]
    /\ UNCHANGED <<now, phase>>

\* ... calls measure() and returns
ReadEnd(Xfer, Raws, Notify) ==
    /\ phase = "ready"
    /\ icm.pc.at = "read_measure"
    /\ \E xfer_ok \in Xfer, raw \in Raws, an \in Notify, gn \in Notify :
          /\ icm' = [read(Fresh(icm), now, xfer_ok, raw, an, gn) EXCEPT !.pc = Idle]
          /\ WithinCaps(icm')
    /\ UNCHANGED <<now, phase>>

\* ioctl(SENSORIOCRESET)
IoctlResetOf(Outcomes) ==
    /\ phase = "ready"
    /\ \E outcomes \in Outcomes :
          /\ icm' = reset(Fresh(icm), outcomes)
          /\ WithinCaps(icm')
    /\ UNCHANGED <<now, phase>>

\* ioctl(ACCELIOCSSAMPLERATE) and ioctl(GYROIOCSSAMPLERATE)
SetSampleRateIn(Rates) ==
    /\ phase = "ready"
    /\ \E arg \in Rates :
          icm' = set_sample_rate(Fresh(icm), arg)
    /\ UNCHANGED <<now, phase>>

\* ioctl(ACCELIOCSLOWPASS) and gyro_ioctl(GYROIOCSLOWPASS)
SetLowpassIn(AccelCutoffs, GyroCutoffs) ==
    /\ phase = "ready"
    /\ \/ \E arg \in AccelCutoffs : icm' = set_accel_lowpass(Fresh(icm), arg)
       \/ \E arg \in GyroCutoffs : icm' = set_gyro_lowpass(Fresh(icm), arg)
    /\ UNCHANGED <<now, phase>>

\* ioctl(SENSORIOCSQUEUEDEPTH) on either node
SetQueueDepthIn(Nodes, Depths, Alloc) ==
    /\ phase = "ready"
    /\ \E node \in Nodes, arg \in Depths, alloc_ok \in Alloc :
          icm' = set_queue_depth(Fresh(icm), node, arg, alloc_ok)
    /\ UNCHANGED <<now, phase>>

\* ioctl(ACCELIOCSRANGE)
SetAccelRangeIn(Ranges) ==
    /\ phase = "ready"
    /\ \E arg \in Ranges :
          icm' = ioctl_set_accel_range(Fresh(icm), arg)
    /\ UNCHANGED <<now, phase>>

\* ioctl(ACCELIOCSSCALE)
SetAccelScaleIn(Cals) ==
    /\ phase = "ready"
    /\ \E s \in Cals :
          icm' = [set_accel_scale(Fresh(icm), s) EXCEPT !.cal = s]
    /\ UNCHANGED <<now, phase>>

\* gyro_ioctl(GYROIOCSSCALE)
SetGyroScaleIn(Cals) ==
    /\ phase = "ready"
    /\ \E s \in Cals :
          icm' = [set_gyro_scale(Fresh(icm), s) EXCEPT !.cal = s]
    /\ UNCHANGED <<now, phase>>

\* ioctl(ACCELIOCSELFTEST)
AccelSelfTestOf(Xfer, Raws, Notify) ==
    /\ phase = "ready"
    /\ \E xfer_ok \in Xfer, raw \in Raws, an \in Notify, gn \in Notify :
          /\ icm' = accel_self_test(Fresh(icm), now, xfer_ok, raw, an, gn)
          /\ WithinCaps(icm')
    /\ UNCHANGED <<now, phase>>

\* gyro_ioctl(GYROIOCSELFTEST)
GyroSelfTestOf(Xfer, Raws, Notify) ==
    /\ phase = "ready"
    /\ \E xfer_ok \in Xfer, raw \in Raws, an \in Notify, gn \in Notify :
          /\ icm' = gyro_self_test(Fresh(icm), now, xfer_ok, raw, an, gn)
          /\ WithinCaps(icm')
    /\ UNCHANGED <<now, phase>>

\* test_error() sets the self-test flag ...
TestErrorBegin ==
    /\ phase = "ready"
    /\ ~icm._in_factory_test
    /\ icm' = [Fresh(icm) EXCEPT !._in_factory_test = TRUE, !.op = "test_error"]
    /\ UNCHANGED <<now, phase>>

\* ... and clears it after the dummy transfer and the register dump
TestErrorEnd ==
    /\ phase = "ready"
    /\ icm._in_factory_test
    /\ icm' = [Fresh(icm) EXCEPT !._in_factory_test = FALSE, !.op = "test_error"]
    /\ UNCHANGED <<now, phase>>

\* check_registers() is called, until cap mismatches have been counted.  The
\* driver's only call of it, in measure(), is commented out, so no
\* specification of the driver as shipped has this action.
CheckRegistersUpTo(cap, track) ==
    /\ phase = "ready"
    /\ icm._bad_registers < cap
    /\ LET d == check_registers(Fresh(icm), now)
       IN  icm' = [d EXCEPT !.awaiting = track /\ (@ \/ d.chk.mismatch),
                            !.run = IF d.chk.mismatch THEN 0 ELSE @]
    /\ UNCHANGED <<now, phase>>

-----------------------------------------------------------------------------
(* The driver as shipped: bring-up, the poll-rate ioctl, the timer, read() *)
(* on both nodes and the self-test flag                                    *)

DriverInit == BringUp(BOOLEAN, {CleanReset}, BOOLEAN, OneSample, {TRUE})
SetPollRate == SetPollRateIn({"MANUAL", "EXTERNAL", "MAX", "DEFAULT", "hz"}, {0, 250, 1001})
TimerMeasure == TimerMeasureOf(BOOLEAN, Samples, BOOLEAN, GoodCycles, MaxCycles, FALSE)
Read == ReadOf({TRUE}, OneSample, {TRUE}, GoodCycles, MaxCycles, FALSE)
GyroRead == GyroReadOf({TRUE}, OneSample, {TRUE}, GoodCycles, MaxCycles, FALSE)

Next ==
    \/ DriverInit
    \/ SetPollRate
    \/ TimerMeasure
    \/ Read
    \/ GyroRead
    \/ TestErrorBegin
    \/ TestErrorEnd

Spec == Init /\ [][Next]_vars

-----------------------------------------------------------------------------
(* The health monitor: check_registers() is called from the sampling       *)
(* context, between the measurement cycles                                 *)

CleanInit == BringUp({TRUE}, {CleanReset}, {TRUE}, OneSample, {TRUE})
StartSampling == SetPollRateIn({"DEFAULT"}, {0})
HMCorrupt == CorruptIn({ICMREG_PWR_MGMT_1, ICMREG_CONFIG})
HMMeasure == TimerMeasureOf({TRUE}, Samples, {TRUE}, GoodCycles, MaxMonitored, FALSE)
CheckRegisters == CheckRegistersUpTo(MaxBadRegs, FALSE)

NextHM ==
    \/ Tick
    \/ CleanInit
    \/ StartSampling
    \/ HMCorrupt
    \/ HMMeasure
    \/ CheckRegisters

SpecHM == Init /\ [][NextHM]_vars

-----------------------------------------------------------------------------
(* The recovery after one mismatch, followed to the point where the        *)
(* reports are pushed again                                                *)

TrustCorrupt == CorruptIn({ICMREG_CONFIG})
TrustCheck == CheckRegistersUpTo(1, TRUE)
TrustMeasure == TimerMeasureOf({TRUE}, HMSamples, {TRUE}, PushCycles, MaxMonitored, TRUE)

NextTrust ==
    \/ Tick
    \/ CleanInit
    \/ StartSampling
    \/ TrustCorrupt
    \/ TrustCheck
    \/ TrustMeasure

SpecTrust == Init /\ [][NextTrust]_vars

-----------------------------------------------------------------------------
(* The driver as shipped with the timer running for ever: the periodic     *)
(* call of measure_trampoline() comes again as long as the timer is armed  *)

LiveMeasure == TimerMeasureOf({TRUE}, GoodSamples, {TRUE}, {}, 0, FALSE)

NextLive ==
    \/ CleanInit
    \/ StartSampling
    \/ TrustCorrupt
    \/ LiveMeasure

SpecLive == Init /\ [][NextLive]_vars /\ WF_vars(LiveMeasure)

-----------------------------------------------------------------------------
(* The health monitor run once per sampling cycle, for ever: after one     *)
(* corruption the bus delivers every transfer and the sensor keeps what is *)
(* written to it                                                           *)

NextRecover ==
    \/ CleanInit
    \/ StartSampling
    \/ HMCorrupt
    \/ Elapse
    \/ MonitoredMeasureOf(GoodSamples)

SpecRecover ==
    /\ Init /\ [][NextRecover]_vars
    /\ WF_vars(Elapse) /\ WF_vars(MonitoredMeasureOf(GoodSamples))

-----------------------------------------------------------------------------
(* The two guards of measure(): the self-test flag of test_error() and the *)
(* deadline check_registers() sets                                         *)

NextGuard ==
    \/ Tick
    \/ CleanInit
    \/ StartSampling
    \/ TrustCorrupt
    \/ CheckRegistersUpTo(1, FALSE)
    \/ TestErrorBegin
    \/ TestErrorEnd
    \/ TimerMeasureOf(BOOLEAN, GoodSamples, {TRUE}, GoodCycles, MaxMonitored, FALSE)

SpecGuard == Init /\ [][NextGuard]_vars

-----------------------------------------------------------------------------
(* reset() against every behaviour of the sensor, at bring-up and from the *)
(* reset ioctl                                                             *)

AnyInit == BringUp({TRUE}, ResetOutcomes, {TRUE}, OneSample, {TRUE})
IoctlReset == IoctlResetOf(ResetOutcomes)

NextReset ==
    \/ AnyInit
    \/ IoctlReset

SpecReset == Init /\ [][NextReset]_vars

-----------------------------------------------------------------------------
(* The accel calibration ioctl against calibrations whose scale sums lie   *)
(* below, at, between and above the two limits                             *)

\* scales and offsets a calibration may carry, in millionths
ScaleVals == {500000, 1000000, 2000000}
OffsetVals == {0, 250000}

Calibrations ==
    [x_offset : OffsetVals, x_scale : ScaleVals,
     y_offset : {0}, y_scale : ScaleVals,
     z_offset : {0}, z_scale : ScaleVals]

SetAccelScale == SetAccelScaleIn(Calibrations)

NextCal ==
    \/ CleanInit
    \/ SetAccelScale

SpecCal == Init /\ [][NextCal]_vars

-----------------------------------------------------------------------------
(* The sample-rate ioctl against every rate up to MaxRate                  *)

SetSampleRate == SetSampleRateIn(0 .. MaxRate)

NextRate ==
    \/ CleanInit
    \/ SetSampleRate

SpecRate == Init /\ [][NextRate]_vars

-----------------------------------------------------------------------------
(* The range ioctl against every range up to MaxRange                      *)

NextRange ==
    \/ CleanInit
    \/ SetAccelRangeIn(0 .. MaxRange)

SpecRange == Init /\ [][NextRange]_vars

-----------------------------------------------------------------------------
(* The low-pass ioctl of the accel node against every cutoff up to         *)
(* MaxCutoff and the largest value of the parameter's type, that of the    *)
(* gyro node against a few cutoffs                                         *)

NextLowpass ==
    \/ CleanInit
    \/ SetLowpassIn((0 .. MaxCutoff) \cup {65535}, {0, 15, 188, 189})

SpecLowpass == Init /\ [][NextLowpass]_vars

-----------------------------------------------------------------------------
(* The axis fix-up against samples at the ends of the 16-bit range         *)

\* values of a field at and next to the ends of the range and around zero
AxisVals == {-32768, -32767, -1, 0, 1, 32767}

\* samples whose accel and gyro x and y take these values independently of
\* each other; z is never zero, so that no transfer is all zero
AxisSamples ==
    { ICMReport(x, y, z, 40, y, x, -z - 1) :
          x \in AxisVals, y \in AxisVals, z \in {-32768, 3} }

NextAxes ==
    \/ CleanInit
    \/ StartSampling
    \/ TimerMeasureOf({TRUE}, AxisSamples, {TRUE}, GoodCycles, MaxMonitored, FALSE)

SpecAxes == Init /\ [][NextAxes]_vars

-----------------------------------------------------------------------------
(* The configuration ioctls and reset() in any order, with arguments at    *)
(* and around the limits, up to 2^31 - 1                                   *)

\* a sensor that comes up at once, one that never takes the clock selection,
\* and one that is still in reset after the first settle delay
ConfigOutcomes ==
    {CleanReset, [i \in 1 .. 4 |-> "clock_bad"], [i \in 1 .. 4 |-> "ack_set"]}

NextConfig ==
    \/ CleanInit
    \/ IoctlResetOf(ConfigOutcomes)
    \/ SetSampleRateIn({0, 1, 3, 1001, 2147483647})
    \/ SetAccelRangeIn({0, 3, 8, 17, 2147483647})
    \/ SetPollRateIn({"MANUAL", "hz"}, {0, 250, 2000})
    \/ SetLowpassIn({0, 42}, {189})

SpecConfig == Init /\ [][NextConfig]_vars

-----------------------------------------------------------------------------
(* The queue-depth ioctl while the timer fills the buffers: every depth up *)
(* to MaxDepth on the accel node, a few on the gyro node, where the        *)
(* allocation may fail                                                     *)

NextQueue ==
    \/ CleanInit
    \/ StartSampling
    \/ TimerMeasureOf({TRUE}, OneSample, {TRUE}, PushCycles, MaxMonitored, FALSE)
    \/ SetQueueDepthIn({"accel"}, 0 .. MaxDepth, {TRUE})
    \/ SetQueueDepthIn({"gyro"}, {0, 1, 101}, BOOLEAN)

SpecQueue == Init /\ [][NextQueue]_vars

-----------------------------------------------------------------------------
(* reset() from the reset ioctl, with calibrations other than the default  *)
(* stored on both nodes                                                    *)

\* a calibration with the x offset and the x scale given, in millionths
Calibration(x_offset, x_scale) ==
    [DefaultScale EXCEPT !.x_offset = x_offset, !.x_scale = x_scale]

StoredCalibrations == {Calibration(0, 1000000), Calibration(250000, 1200000)}

NextKeep ==
    \/ CleanInit
    \/ SetAccelScaleIn(StoredCalibrations)
    \/ SetGyroScaleIn(StoredCalibrations)
    \/ IoctlResetOf(ConfigOutcomes)

SpecKeep == Init /\ [][NextKeep]_vars

-----------------------------------------------------------------------------
(* The two self-tests against calibrations below, at and above each of     *)
(* their limits, after a bring-up whose measurement may have failed        *)

\* a calibration from an <<offset, scale>> pair per axis
AxisCalibration(x, y, z) ==
    [x_offset |-> x[1], x_scale |-> x[2],
     y_offset |-> y[1], y_scale |-> y[2],
     z_offset |-> z[1], z_scale |-> z[2]]

AccelTestCalibrations ==
    {AxisCalibration(x, y, z) :
        x \in {-250000, -1, 0, 1} \X {599999, 600000, 999999, 1000000, 1000001, 1400000, 1400001},
        y \in {<<1, 1000001>>, <<0, 1200000>>, <<250000, 1000000>>},
        z \in {<<1, 1000001>>, <<0, 1200000>>, <<250000, 1400001>>}}

NextAccelTest ==
    \/ BringUp({TRUE}, {CleanReset}, BOOLEAN, OneSample, {TRUE})
    \/ SetAccelScaleIn(AccelTestCalibrations)
    \/ AccelSelfTestOf(BOOLEAN, OneSample, {TRUE})

SpecAccelTest == Init /\ [][NextAccelTest]_vars

GyroTestCalibrations ==
    {AxisCalibration(x, y, z) :
        x \in {-340001, -340000, -1, 0, 1, 340000, 340001}
                 \X {699999, 700000, 1000000, 1300000, 1300001, 1400001},
        y \in {<<0, 1000000>>, <<1, 1000000>>, <<340001, 1000000>>},
        z \in {<<0, 1000000>>, <<-1, 1300000>>, <<0, 699999>>}}

NextGyroTest ==
    \/ BringUp({TRUE}, {CleanReset}, BOOLEAN, OneSample, {TRUE})
    \/ SetGyroScaleIn(GyroTestCalibrations)
    \/ GyroSelfTestOf(BOOLEAN, OneSample, {TRUE})

SpecGyroTest == Init /\ [][NextGyroTest]_vars

-----------------------------------------------------------------------------
(* Set-poll-rate and read() statement by statement, with the timer firing  *)
(* between any two statements while it is registered                       *)

NextSteps ==
    \/ CleanInit
    \/ PollRateBegin({"MANUAL", "EXTERNAL", "MAX", "hz"}, {0, 250, 1001})
    \/ PollRateStep
    \/ ReadBegin
    \/ ReadEnd({TRUE}, GoodSamples, {TRUE})
    \/ TimerMeasureOf({TRUE}, GoodSamples, {TRUE}, GoodCycles, MaxMonitored, FALSE)

SpecSteps == Init /\ [][NextSteps]_vars

-----------------------------------------------------------------------------
(* Sampling followed cycle by cycle: every cycle is counted, whatever its  *)
(* outcome, and the event counters run free.  Three reports overfill the   *)
(* two-entry buffers of init().                                            *)

\* the periodic timer calls measure_trampoline(); the transfer fails or
\* fetches any of the samples, and each integrator closes its window or not
FollowedMeasure ==
    /\ phase = "ready"
    /\ icm._call.armed /\ ~icm.irq_off
    /\ \E xfer_ok \in BOOLEAN, raw \in Samples, an \in BOOLEAN, gn \in BOOLEAN :
          /\ icm' = Account(icm, measure(Fresh(icm), now, xfer_ok, raw, an, gn),
                            {"xfer", "dup", "zero", "wait", "full"}, FALSE)
          /\ WithinBudget(icm', MaxFollowed)
    /\ UNCHANGED <<now, phase>>

\* ioctl(DEVIOCSPUBBLOCK), which ICM20602::ioctl() hands to CDev::ioctl():
\* publication is blocked or released
SetPubBlock ==
    /\ phase = "ready"
    /\ \E arg \in {0, 1} :
          icm' = Returned([Fresh(icm) EXCEPT !._pub_blocked = (arg # 0)],
                          "pub_block", "OK")
    /\ UNCHANGED <<now, phase>>

NextCycles ==
    \/ CleanInit
    \/ SetPollRateIn({"MANUAL", "DEFAULT"}, {0})
    \/ SetPubBlock
    \/ FollowedMeasure

SpecCycles == Init /\ [][NextCycles]_vars

-----------------------------------------------------------------------------
(* Properties.  A step of a property is told from the observation the      *)
(* operation leaves: every operation starts from Fresh(icm).               *)

\* the step is a call of check_registers()
CheckStep == icm' # icm /\ icm'.op = "check_registers"

\* the step is a measurement cycle that fetched a transfer
FetchStep == icm' # icm /\ icm'.cyc.kind \in {"dup", "zero", "wait", "full"}

\* the step is a measurement cycle
CycleStep == icm' # icm /\ icm'.cyc.kind # "none"

\* the cycle of the step pushed nothing and published nothing
NothingOut ==
    /\ ~icm'.cyc.pushed /\ ~icm'.cyc.pub_accel /\ ~icm'.cyc.pub_gyro
    /\ icm'.op = "measure" =>
          /\ icm'._accel_reports = icm._accel_reports
          /\ icm'._gyro_reports = icm._gyro_reports

\* the recovery state of the health monitor is left alone by the step
NoRecovery ==
    /\ icm'._reset_wait = icm._reset_wait
    /\ icm'._register_wait = icm._register_wait
    /\ icm'._checked_next = icm._checked_next
    /\ icm'.chip = icm.chip

\* all seven fields of a transfer are zero, byte by byte
DecodesToZero(raw) ==
    \A f \in {"accel_x", "accel_y", "accel_z", "temp", "gyro_x", "gyro_y", "gyro_z"} :
        raw[f] = <<0, 0>>

\* a checked register of the sensor differs from its shadow value
Mismatch == \E i \in CheckedIdx : icm.chip[i] # icm._checked_values[i]

\* C1: while the periodic sampling runs, a checked register that differs
\* from its shadow value is eventually detected by the sampling loop (the
\* bad-register counter is incremented); and a cycle that sees no mismatch
\* sends no reset to the sensor.
C1_CorruptionDetected ==
    /\ (phase = "ready" /\ icm._call.armed /\ Mismatch)
           ~> (icm._bad_registers > 0 \/ ~icm._call.armed \/ ~Mismatch)
    /\ [][(CycleStep /\ ~Mismatch) => NoRecovery]_vars

\* C1, the case: a report is pushed while a register the environment
\* changed still differs from its shadow and nothing has been counted
C1_CorruptionUnnoticed ==
    /\ icm._call.armed /\ icm.corrupted
    /\ icm.chip[ICMREG_CONFIG] # icm._checked_values[ICMREG_CONFIG]
    /\ icm.cyc.pushed /\ icm._bad_registers = 0

\* C2: while the wait counter is not zero, no measurement cycle pushes a
\* report into either buffer or publishes on either topic, a cycle with a
\* good transfer takes exactly one off the counter, and any other cycle
\* leaves the counter as it is.
C2_SuppressedWhileWaiting ==
    [][(CycleStep /\ icm._register_wait # 0) =>
          /\ NothingOut
          /\ icm'._accel_reports = icm._accel_reports
          /\ icm'._gyro_reports = icm._gyro_reports
          /\ icm'._register_wait =
                IF icm'.cyc.good THEN icm._register_wait - 1 ELSE icm._register_wait]_vars

\* C2, the case: after a detected mismatch the good transfers have brought
\* the counter from 20 back to zero
C2_CountedDown ==
    /\ icm._bad_registers = 1 /\ icm.awaiting
    /\ icm.cyc.kind = "wait" /\ icm._register_wait = 0

\* C3: after a detected mismatch the first report is pushed only after 20
\* successful cycles in a row: a failed cycle during the wait is followed by
\* a whole run of 20 successful cycles before the first report.
C3_TwentyInARow ==
    [][(CycleStep /\ icm.awaiting /\ icm'.cyc.pushed) => icm.run = 20]_vars

\* C4: a call of check_registers() that finds a mismatch with the cursor at
\* 0 sends the reset command to the sensor, sets the deadline to now + 10 ms,
\* and leaves the cursor at 0.
C4_MismatchAtCursorZero ==
    (icm.op = "check_registers" /\ icm.chk.mismatch /\ icm.chk.cursor = 0) =>
        /\ icm.chk.reset /\ icm.chip = ChipPowerOn
        /\ icm._reset_wait = icm.chk.at + 10000
        /\ icm._checked_next = 0

\* C4, the case: a mismatch was found with the cursor at 0
C4_FoundAtCursorZero ==
    icm.op = "check_registers" /\ icm.chk.mismatch /\ icm.chk.cursor = 0

\* what C5 states for a mismatch found with the cursor at 1..7: only the
\* register is written back, the deadline is now + 3 ms
RewriteOnly ==
    /\ icm'.chip = [icm.chip EXCEPT ![icm._checked_next] =
                        icm._checked_values[icm._checked_next]]
    /\ icm'.chk.rewrite /\ ~icm'.chk.reset
    /\ icm'._reset_wait = now + 3000

\* C5 as amended: a call of check_registers() that finds a mismatch with the
\* cursor at 1..7 writes only that register back and sets the deadline to
\* now + 3 ms when the wait counter is not zero on entry; when the counter
\* is zero it sends the reset command, sets the deadline to now + 10 ms and
\* leaves the cursor at 1.
C5_TieringAtNonZeroCursor ==
    [][(CheckStep /\ icm'.chk.mismatch /\ icm._checked_next \in 1 .. 7) =>
          IF icm._register_wait # 0
          THEN /\ RewriteOnly
               /\ icm'._checked_next =
                     (icm._checked_next + 1) % ICM20602_NUM_CHECKED_REGISTERS
          ELSE /\ icm'.chip = ChipPowerOn
               /\ icm'.chk.reset /\ ~icm'.chk.rewrite
               /\ icm'._reset_wait = now + 10000
               /\ icm'._checked_next = 1]_vars

\* C5 as stated: every mismatch found with the cursor at 1..7 is answered
\* by writing only that register back, with the deadline at now + 3 ms
C5_RewriteAtNonZeroCursor ==
    [][(CheckStep /\ icm'.chk.mismatch /\ icm._checked_next \in 1 .. 7) =>
          RewriteOnly]_vars

\* C5, the case: a mismatch at a cursor of 1..7 was answered by the rewrite
C5_Rewritten ==
    /\ icm.op = "check_registers" /\ icm.chk.mismatch
    /\ icm.chk.cursor \in 1 .. 7 /\ icm.chk.wait # 0
    /\ icm.chk.rewrite
    /\ icm.chip[icm.chk.cursor] = icm._checked_values[icm.chk.cursor]

\* C6: a cycle that fetches the accel triplet of the cycle before it, which
\* was processed as a new sample, adds one to the duplicate counter, returns
\* OK, pushes nothing and publishes nothing; a cycle with another triplet
\* after it is processed as a new sample and takes its triplet as the latch.
C6_DuplicateSuppression ==
    [][/\ (FetchStep /\ icm.cyc.kind \in {"zero", "wait", "full"}
                     /\ AccelBytes(icm'.cyc.raw) = AccelBytes(icm.cyc.raw)) =>
              /\ icm'.cyc.kind = "dup"
              /\ icm'._duplicates = icm._duplicates + 1
              /\ icm'.op = "measure" => icm'.ret = "OK"
              /\ NothingOut
              /\ icm'._last_accel = icm._last_accel
       /\ (FetchStep /\ icm.cyc.kind = "dup"
                     /\ AccelBytes(icm'.cyc.raw) # AccelBytes(icm.cyc.raw)) =>
              /\ icm'.cyc.kind \in {"zero", "wait", "full"}
              /\ icm'.cyc.pushed = ~DecodesToZero(icm'.cyc.raw)
              /\ icm'._duplicates = icm._duplicates
              /\ icm'._last_accel = AccelBytes(icm'.cyc.raw)
              /\ ~icm'._got_duplicate]_vars

\* C6, the case: a report was pushed for a new triplet right after a cycle
\* that was dropped as a duplicate of an ordinary sample
C6_ResumedAfterDuplicate ==
    /\ icm._duplicates = 1 /\ ~icm._got_duplicate
    /\ icm.cyc.kind = "full" /\ icm.op = "measure"
    /\ Len(icm._accel_reports) = 2
    /\ icm._accel_reports[1].x_raw # icm._accel_reports[2].x_raw

\* what C7 states for a cycle that fetched an all-zero transfer
CountedAsBusError ==
    /\ icm'.cyc.kind = "zero"
    /\ icm'._bad_transfers = icm._bad_transfers + 1
    /\ icm'.op = "measure" => icm'.ret = "-EIO"
    /\ NothingOut
    /\ NoRecovery

\* C7 as amended: a cycle that fetched an all-zero transfer and was not
\* dropped by the duplicate test (the latch holds another triplet, or the
\* cycle before was dropped as a duplicate) adds one to the bad-transfer
\* counter, returns -EIO, pushes and publishes nothing and leaves deadline,
\* wait counter, cursor and sensor alone; with a zero latch and no duplicate
\* flagged the cycle is dropped as a duplicate: it returns OK and the
\* bad-transfer counter is not touched.  No other transfer is counted as bad.
C7_ZeroDataAfterDuplicateTest ==
    [][/\ (FetchStep /\ DecodesToZero(icm'.cyc.raw)) =>
              IF icm._got_duplicate \/ icm._last_accel # ZeroAccel
              THEN CountedAsBusError
              ELSE /\ icm'.cyc.kind = "dup"
                   /\ icm'._bad_transfers = icm._bad_transfers
                   /\ icm'._duplicates = icm._duplicates + 1
                   /\ icm'.op = "measure" => icm'.ret = "OK"
                   /\ NothingOut
                   /\ NoRecovery
       /\ (FetchStep /\ ~DecodesToZero(icm'.cyc.raw)) =>
              icm'._bad_transfers = icm._bad_transfers]_vars

\* C7 as stated: every cycle that fetched an all-zero transfer is counted
\* as a bus error
C7_EveryZeroSampleCounted ==
    [][(FetchStep /\ DecodesToZero(icm'.cyc.raw)) => CountedAsBusError]_vars

\* C7, the case: an all-zero transfer was counted as a bus error while the
\* health monitor was waiting
C7_ZeroCountedWhileWaiting ==
    /\ icm.cyc.kind = "zero" /\ icm.op = "measure" /\ icm.ret = "-EIO"
    /\ icm._bad_transfers = 1
    /\ icm._register_wait # 0 /\ icm._reset_wait # 0

\* C8: a call of reset() makes at most 4 attempts, fails only after 4 failed
\* attempts, and adds one to the reset-retries counter for every failed
\* attempt.
C8_RetryProtocol ==
    icm.rst.attempts > 0 =>
        /\ icm.rst.attempts <= 4
        /\ ~icm.rst.configured => icm.rst.failed = 4
        /\ icm._reset_retries = icm.rst.retries + icm.rst.failed

\* C8, the case: reset() gave up after an attempt that found the reset bit
\* of the sensor still set
C8_GaveUpEarly ==
    /\ icm.op = "reset" /\ icm.ret = "-EIO"
    /\ icm.rst.attempts = 1 /\ icm._reset_retries = icm.rst.retries

\* the sum of the three scales of a calibration, in millionths
ScaleSum(s) == s.x_scale + s.y_scale + s.z_scale

\* C9 as amended: ACCELIOCSSCALE stores the calibration and returns OK
\* exactly when the sum of the three scales is above 2.0 and below 4.0; for
\* every other sum, 2.0 and 4.0 included, it returns -EINVAL and leaves the
\* stored calibration as it was.
C9_ScaleSumStrictlyInside ==
    [][(icm' # icm /\ icm'.op = "accel_scale") =>
          IF ScaleSum(icm'.cal) > 2000000 /\ ScaleSum(icm'.cal) < 4000000
          THEN icm'.ret = "OK" /\ icm'._accel_scale = icm'.cal
          ELSE icm'.ret = "-EINVAL" /\ icm'._accel_scale = icm._accel_scale]_vars

\* C9 as stated: the calibration is stored exactly when the sum lies within
\* [2.0, 4.0], the two limits included
C9_ScaleSumWithinLimits ==
    [][(icm' # icm /\ icm'.op = "accel_scale") =>
          IF ScaleSum(icm'.cal) >= 2000000 /\ ScaleSum(icm'.cal) <= 4000000
          THEN icm'.ret = "OK" /\ icm'._accel_scale = icm'.cal
          ELSE icm'.ret = "-EINVAL" /\ icm'._accel_scale = icm._accel_scale]_vars

\* C9, the case: a calibration whose scales sum to exactly 2.0 was rejected
\* and the stored calibration is another one
C9_LimitRejected ==
    /\ icm.op = "accel_scale" /\ icm.ret = "-EINVAL"
    /\ ScaleSum(icm.cal) = 2000000
    /\ icm._accel_scale # icm.cal /\ icm._accel_scale # DefaultScale

\* clamp(v, 1, 200)
Clamped(v) == IF v > 200 THEN 200 ELSE IF v < 1 THEN 1 ELSE v

\* C10: for a rate of 1 Hz or more _set_sample_rate() programs the divider
\* clamp(round(1000 / rate), 1, 200), as divider - 1, and the sample rate
\* becomes 1000 / divider.  The rounding is read as either of the two the
\* sentence allows: to the integer below, or to the nearest integer.
C10_DividerClamped ==
    (icm.op = "sample_rate" /\ icm.req >= 1) =>
        /\ \/ icm.chip[ICMREG_SMPLRT_DIV] + 1 = Clamped(1000 \div icm.req)
           \/ icm.chip[ICMREG_SMPLRT_DIV] + 1 = Clamped((2000 + icm.req) \div (2 * icm.req))
        /\ icm._sample_rate = 1000 \div (icm.chip[ICMREG_SMPLRT_DIV] + 1)

\* C10, the case: a rate whose quotient does not fit into eight bits
C10_Wrapped ==
    /\ icm.op = "sample_rate" /\ icm.req = 3
    /\ icm.chip[ICMREG_SMPLRT_DIV] + 1 = 77
    /\ icm._sample_rate = 12

\* the ranges the sensor supports, in g
Buckets == {2, 4, 8, 16}

\* the range code and the LSB per g of a bucket
RangeCode(g) == CASE g = 2 -> 0 [] g = 4 -> 8 [] g = 8 -> 16 [] g = 16 -> 24
LsbPerG(g) == CASE g = 2 -> 16384 [] g = 4 -> 8192 [] g = 8 -> 4096 [] g = 16 -> 2048

\* C11: set_accel_range(r) follows the ladder r > 8 -> 16 g, r > 4 -> 8 g,
\* r > 2 -> 4 g, else 2 g; for r in 0..16 that is the smallest supported
\* range that covers r.  The LSB per g are 2048, 4096, 8192, 16384, the
\* range code goes to the sensor and to the shadow value, and the get-range
\* ioctl answers the selected range in g.
C11_RangeLadder ==
    icm.op = "accel_range" =>
        LET g == ioctl_get_accel_range(icm)
        IN  /\ g = IF icm.req > 8 THEN 16 ELSE IF icm.req > 4 THEN 8
                   ELSE IF icm.req > 2 THEN 4 ELSE 2
            /\ icm.req \in 0 .. 16 =>
                   /\ g >= icm.req
                   /\ \A b \in Buckets : b >= icm.req => g <= b
            /\ icm._accel_range_m_s2 = g * ICM20602_ONE_G
            /\ icm._accel_range_scale = LsbPerG(g)
            /\ icm.chip[ICMREG_ACCEL_CONFIG] = RangeCode(g)
            /\ icm._checked_values[ICMREG_ACCEL_CONFIG] = RangeCode(g)

\* C11, the case: a request of 10 g selected 16 g with 2048 LSB per g
C11_TenSelectsSixteen ==
    /\ icm.op = "accel_range" /\ icm.req = 10
    /\ ioctl_get_accel_range(icm) = 16 /\ icm._accel_range_scale = 2048
    /\ icm.chip[ICMREG_ACCEL_CONFIG] = 24

\* C12: set_accel_range(max_g) returns OK when a supported range covers
\* max_g; for a max_g above 16 it returns -ERANGE and leaves the range
\* configuration as it was.
C12_RangeRejectedAboveSixteen ==
    [][(icm' # icm /\ icm'.op = "accel_range") =>
          IF icm'.req <= 16
          THEN icm'.ret = "OK"
          ELSE /\ icm'.ret = "-ERANGE"
               /\ icm'._accel_range_m_s2 = icm._accel_range_m_s2
               /\ icm'._accel_range_scale = icm._accel_range_scale
               /\ icm'.chip = icm.chip
               /\ icm'._checked_values = icm._checked_values]_vars

\* C12, the case: a request of 17 g was accepted and set the range to 16 g
C12_SeventeenAccepted ==
    /\ icm.op = "accel_range" /\ icm.req = 17 /\ icm.ret = "OK"
    /\ ioctl_get_accel_range(icm) = 16

\* the cutoffs the sensor supports below the wide-open setting, in Hz, and
\* the setting of each
Cutoffs == {5, 10, 20, 42, 98, 188}
DlpfCode(hz) ==
    CASE hz = 5 -> BITS_DLPF_CFG_5HZ [] hz = 10 -> BITS_DLPF_CFG_10HZ
      [] hz = 20 -> BITS_DLPF_CFG_20HZ [] hz = 42 -> BITS_DLPF_CFG_42HZ
      [] hz = 98 -> BITS_DLPF_CFG_98HZ [] hz = 188 -> BITS_DLPF_CFG_188HZ

\* C13: _set_dlpf_filter(f) writes, to the sensor and to the shadow value,
\* the setting of the ladder f <= 5, <= 10, <= 20, <= 42, <= 98, <= 188,
\* else wide open; f = 0 is wide open; for f in 1..188 the setting is the
\* smallest supported cutoff that is not below f.
C13_DlpfLadder ==
    icm.op \in {"accel_lowpass", "gyro_lowpass"} =>
        LET f == icm.req
            code == icm.chip[ICMREG_CONFIG]
        IN  /\ icm._checked_values[ICMREG_CONFIG] = code
            /\ (f = 0 \/ f > 188) => code = BITS_DLPF_CFG_4000HZ_NOLPF
            /\ f \in 1 .. 188 =>
                   \E c \in Cutoffs :
                      /\ code = DlpfCode(c)
                      /\ c >= f
                      /\ \A b \in Cutoffs : b >= f => c <= b

\* C13, the case: a cutoff of 15 Hz selected the 20 Hz setting
C13_FifteenSelectsTwenty ==
    /\ icm.op = "accel_lowpass" /\ icm.req = 15
    /\ icm.chip[ICMREG_CONFIG] = BITS_DLPF_CFG_20HZ
    /\ icm._checked_values[ICMREG_CONFIG] = BITS_DLPF_CFG_20HZ

\* the last report of a buffer
Newest(buf) == buf[Len(buf)]

\* a value fits a signed 16-bit field
FitsInt16(v) == v \in -32768 .. 32767

\* C14: in the reports a cycle of the timer pushes, for accel and for gyro,
\* x is the old y, y is the old x negated, except that an old x of -32768
\* gives 32767, and z is the old z; every value fits a signed 16-bit field.
C14_AxisFixUp ==
    [][(CycleStep /\ icm'.op = "measure" /\ icm'.cyc.pushed) =>
          LET r == Report(icm'.cyc.raw)
              a == Newest(icm'._accel_reports)
              g == Newest(icm'._gyro_reports)
          IN  /\ a.x_raw = r.accel_y
              /\ a.y_raw = IF r.accel_x = -32768 THEN 32767 ELSE -r.accel_x
              /\ a.z_raw = r.accel_z
              /\ g.x_raw = r.gyro_y
              /\ g.y_raw = IF r.gyro_x = -32768 THEN 32767 ELSE -r.gyro_x
              /\ g.z_raw = r.gyro_z
              /\ \A v \in {a.x_raw, a.y_raw, a.z_raw, g.x_raw, g.y_raw, g.z_raw} :
                     FitsInt16(v)]_vars

\* C14, the case: a sample with an accel x of -32768 was reported with an
\* accel y of 32767, and its gyro x of 32767 with a gyro y of -32767
C14_Saturated ==
    /\ icm.op = "measure" /\ icm.cyc.pushed
    /\ Report(icm.cyc.raw).accel_x = -32768
    /\ Report(icm.cyc.raw).gyro_x = 32767
    /\ Newest(icm._accel_reports).y_raw = 32767
    /\ Newest(icm._gyro_reports).y_raw = -32767

\* C15: once reset() has succeeded, whatever set-sample-rate, set-range,
\* set-poll-rate, set-low-pass and reset operations follow, the divider is
\* in 1..200 (register value 0..199, in the sensor and in the shadow value),
\* the sample rate is in 5..1000 Hz and the accel range is 2, 4, 8 or 16 g.
C15_ConfigurationInRange ==
    phase = "ready" =>
        /\ icm.chip[ICMREG_SMPLRT_DIV] \in 0 .. 199
        /\ icm._checked_values[ICMREG_SMPLRT_DIV] \in 0 .. 199
        /\ icm._sample_rate \in 5 .. 1000
        /\ icm._sample_rate = 1000 \div (icm._checked_values[ICMREG_SMPLRT_DIV] + 1)
        /\ ioctl_get_accel_range(icm) \in Buckets
        /\ icm._checked_values[ICMREG_ACCEL_CONFIG] = RangeCode(ioctl_get_accel_range(icm))
        /\ icm.chip[ICMREG_ACCEL_CONFIG] \in {RangeCode(g) : g \in Buckets}

\* C15, the case: a reset() that failed after the rate was set to 5 Hz by a
\* request of 1 Hz and the low-pass filter was opened
C15_AfterFailedReset ==
    /\ phase = "ready" /\ icm.op = "reset" /\ icm.ret = "-EIO"
    /\ icm._sample_rate = 5
    /\ icm._checked_values[ICMREG_CONFIG] = BITS_DLPF_CFG_4000HZ_NOLPF

\* the driver's state but for the request the observation records
ButRequest(d) == [d EXCEPT !.mode = "", !.req = 0]

\* C16: a set-poll-rate request of 0, of the external mode or of a rate
\* above 1000 Hz returns -EINVAL and leaves call interval, timer, filters,
\* both buffers and the sensor as they were; a manual request stops the
\* timer and sets the call interval to 0; max and default do what a request
\* of their rate in Hz does.
C16_PollRateRequests ==
    [][(icm' # icm /\ icm'.op = "pollrate") =>
          /\ (\/ icm'.mode = "EXTERNAL"
              \/ icm'.mode = "hz" /\ (icm'.req = 0 \/ icm'.req > 1000)) =>
                 /\ icm'.ret = "-EINVAL"
                 /\ icm'._call_interval = icm._call_interval
                 /\ icm'._call = icm._call
                 /\ icm'._accel_filter = icm._accel_filter
                 /\ icm'._gyro_filter = icm._gyro_filter
                 /\ icm'._accel_reports = icm._accel_reports
                 /\ icm'._gyro_reports = icm._gyro_reports
                 /\ icm'.chip = icm.chip
                 /\ icm'._checked_values = icm._checked_values
          /\ icm'.mode = "MANUAL" =>
                 /\ icm'.ret = "OK"
                 /\ ~icm'._call.armed
                 /\ icm'._call_interval = 0
          /\ icm'.mode = "MAX" =>
                 ButRequest(icm') = ButRequest(set_poll_rate(Fresh(icm), "hz", 1000))
          /\ icm'.mode = "DEFAULT" =>
                 ButRequest(icm') =
                     ButRequest(set_poll_rate(Fresh(icm), "hz", ICM20602_ACCEL_DEFAULT_RATE))]_vars

\* C16, the case: a request of 1001 Hz was rejected while the timer was
\* running and a report was waiting in the accel buffer
C16_RejectedWhileSampling ==
    /\ icm.op = "pollrate" /\ icm.mode = "hz" /\ icm.req = 1001
    /\ icm.ret = "-EINVAL"
    /\ icm._call.armed /\ icm._call_interval = 1000
    /\ icm._accel_reports # <<>>

\* C19: in manual mode (call interval 0, as after a manual set-poll-rate
\* request) every read() of one report on the accel node and on the gyro
\* node empties that node's buffer, makes one measurement and returns one
\* report, never an error.
C19_ManualReadReturnsOne ==
    [][(icm' # icm /\ icm'.op \in {"read", "gyro_read"} /\ icm._call_interval = 0) =>
          /\ icm'.cyc.kind # "none"
          /\ icm'.ret = "1"
          /\ icm'._accel_reports = IF icm'.op = "read" THEN <<>> ELSE icm'._accel_reports
          /\ icm'._gyro_reports = IF icm'.op = "gyro_read" THEN <<>> ELSE icm'._gyro_reports]_vars

\* C19, the case: after sampling was stopped by a manual request, a read()
\* on the gyro node fetched the accel triplet of the measurement before it
\* and returned -EAGAIN
C19_GyroReadAfterAccelRead ==
    /\ icm._call_interval = 0 /\ ~icm._call.armed /\ icm._call.period # 0
    /\ icm.op = "gyro_read" /\ icm.ret = "-EAGAIN"
    /\ icm.cyc.kind = "dup" /\ icm._gyro_reports = <<>>

\* C20: set-queue-depth with a value outside 1..100 returns -EINVAL and
\* leaves capacity and contents of both buffers as they were; with a value
\* N in 1..100, the allocation succeeding, it replaces the node's buffer
\* with interrupts disabled, enables them again, returns OK, and
\* get-queue-depth then answers N.
C20_QueueDepth ==
    [][(icm' # icm /\ icm'.op = "queue_depth") =>
          IF icm'.req \notin 1 .. 100
          THEN /\ icm'.ret = "-EINVAL"
               /\ ~icm'.qd.resized
               /\ icm'._accel_size = icm._accel_size
               /\ icm'._gyro_size = icm._gyro_size
               /\ icm'._accel_reports = icm._accel_reports
               /\ icm'._gyro_reports = icm._gyro_reports
          ELSE icm'.ret # "-ENOMEM" =>
                 /\ icm'.ret = "OK"
                 /\ icm'.qd.resized /\ icm'.qd.irq_off
                 /\ icm'.irq_off = icm.irq_off
                 /\ get_queue_depth(icm', icm'.mode) = icm'.req]_vars

\* C20, the case: the accel buffer was resized to 100 reports while it
\* held a report
C20_ResizedToHundred ==
    /\ icm.op = "queue_depth" /\ icm.mode = "accel" /\ icm.req = 100
    /\ icm.ret = "OK" /\ get_queue_depth(icm, "accel") = 100
    /\ icm._accel_reports = <<>> /\ icm._gyro_reports # <<>>

\* the step is a measurement cycle started by the timer
TimerStep == icm' # icm /\ icm'.op = "measure"

\* C17: in every state, those between the statements of set-poll-rate,
\* start() and stop() included, a call interval of 0 implies that the timer
\* callback is not registered; the timer never fires between the test of
\* the call interval in read() and the end of the measure() read() calls.
C17_ManualExcludesTimer ==
    /\ [](icm._call_interval = 0 => ~icm._call.armed)
    /\ [][TimerStep => icm.pc.at # "read_measure"]_vars

\* C17, the case: a manual request has cancelled the running timer and has
\* yet to set the call interval to 0
C17_CancelledBeforeZeroed ==
    /\ icm.pc.at = "manual_interval"
    /\ ~icm._call.armed /\ icm._call_interval # 0 /\ icm._call.period # 0

\* C18: no measurement cycle of the timer runs between the first and the
\* last write of a reconfiguration; here of set-poll-rate.
C18_TimerExcludedWhileReconfiguring ==
    [][TimerStep => icm.pc.at \notin MidMutation]_vars

\* C18, the case: the timer fired with interrupts enabled after set-poll-rate
\* had written the filters and the call interval and before it wrote the
\* timer period
C18_MeasuredMidMutation ==
    /\ icm.op = "measure" /\ icm.cyc.kind = "full"
    /\ icm.pc.at = "period" /\ ~icm.irq_off
    /\ icm._call_interval = 4000 /\ icm._call.period = 1000 - ICM20602_TIMER_REDUCTION

\* C21: reset() leaves the stored accel and gyro calibration (offsets and
\* scales) as they were, whether it returns OK or -EIO.
C21_ResetKeepsCalibration ==
    [][(icm' # icm /\ icm'.op = "reset") =>
          /\ icm'.ret \in {"OK", "-EIO"}
          /\ icm'._accel_scale = icm._accel_scale
          /\ icm'._gyro_scale = icm._gyro_scale]_vars

\* C21, the case: a reset has configured the sensor anew and calibrations
\* other than the default are stored on both nodes
C21_CalibratedAfterReset ==
    /\ icm.op = "reset" /\ icm.ret = "OK" /\ icm.rst.configured
    /\ icm._accel_scale = Calibration(250000, 1200000)
    /\ icm._gyro_scale = Calibration(250000, 1200000)

\* the offsets and scales of a calibration, axis by axis
Axes(s) == {<<s.x_offset, s.x_scale>>, <<s.y_offset, s.y_scale>>, <<s.z_offset, s.z_scale>>}

\* C22: called when at least one measurement has been timed,
\* accel_self_test() returns 1 exactly when some axis has an offset of
\* magnitude below 0.000001 or a scale that differs from 1.0 by more than
\* 0.4 or by less than 0.000001; it never changes a stored calibration.
C22_AccelSelfTestVerdict ==
    [][(icm' # icm /\ icm'.op = "accel_self_test") =>
          /\ icm'._accel_scale = icm._accel_scale
          /\ icm'._gyro_scale = icm._gyro_scale
          /\ icm'.ret \in {"0", "1"}
          /\ icm._sample_perf > 0 =>
                (icm'.ret = "1" <=>
                    \E a \in Axes(icm._accel_scale) :
                        \/ -1 < a[1] /\ a[1] < 1
                        \/ a[2] - 1000000 > 400000 \/ 1000000 - a[2] > 400000
                        \/ (-1 < a[2] - 1000000 /\ a[2] - 1000000 < 1))]_vars

\* C22, the case: the self-test passed a calibration whose x offset is
\* exactly 0.000001 and whose x scale is off by exactly 0.4
C22_PassedAtTheLimits ==
    /\ icm.op = "accel_self_test" /\ icm.ret = "0"
    /\ icm._accel_scale.x_offset = -1 /\ icm._accel_scale.x_scale = 1400000

\* C23: called when at least one measurement has been timed,
\* gyro_self_test() returns 1 exactly when some axis has an offset of
\* magnitude above 0.34 or a scale that differs from 1.0 by more than 0.3,
\* or all three offsets have a magnitude below 0.000001; it never changes a
\* stored calibration.
C23_GyroSelfTestVerdict ==
    [][(icm' # icm /\ icm'.op = "gyro_self_test") =>
          /\ icm'._accel_scale = icm._accel_scale
          /\ icm'._gyro_scale = icm._gyro_scale
          /\ icm'.ret \in {"0", "1"}
          /\ icm._sample_perf > 0 =>
                (icm'.ret = "1" <=>
                    \/ \E a \in Axes(icm._gyro_scale) :
                          \/ a[1] > 340000 \/ a[1] < -340000
                          \/ a[2] - 1000000 > 300000 \/ 1000000 - a[2] > 300000
                    \/ \A a \in Axes(icm._gyro_scale) : -1 < a[1] /\ a[1] < 1)]_vars

\* C23, the case: the self-test passed a calibration whose x offset is
\* exactly 0.34 and whose z scale is off by exactly 0.3
C23_PassedAtTheLimits ==
    /\ icm.op = "gyro_self_test" /\ icm.ret = "0"
    /\ icm._gyro_scale.x_offset = 340000 /\ icm._gyro_scale.z_scale = 1300000

\* C25: a call of check_registers() that finds a mismatch adds one to the
\* bad-register counter and sets the wait counter to 20; it sends the reset
\* command and sets the deadline to now + 10 ms exactly when the cursor is
\* at 0 or the wait counter was 0 on entry, and otherwise writes only the
\* mismatched register back to its shadow value and sets the deadline to
\* now + 3 ms.  A call that finds no mismatch does none of these.
C25_MismatchDecision ==
    [][CheckStep =>
          IF icm.chip[icm._checked_next] # icm._checked_values[icm._checked_next]
          THEN /\ icm'._bad_registers = icm._bad_registers + 1
               /\ icm'._register_wait = 20
               /\ IF icm._checked_next = 0 \/ icm._register_wait = 0
                  THEN /\ icm'.chip = ChipPowerOn
                       /\ icm'._reset_wait = now + 10000
                  ELSE /\ icm'.chip = [icm.chip EXCEPT ![icm._checked_next] =
                                           icm._checked_values[icm._checked_next]]
                       /\ icm'._reset_wait = now + 3000
          ELSE /\ icm'._bad_registers = icm._bad_registers
               /\ icm'._register_wait = icm._register_wait
               /\ icm'._reset_wait = icm._reset_wait
               /\ icm'.chip = icm.chip]_vars

\* C25, the case: a mismatch of the low-pass configuration, found at cursor
\* 3 with the wait counter at 0, was answered by the reset command
C25_EscalatedOnFirstMismatch ==
    /\ icm.op = "check_registers" /\ icm.chk.mismatch
    /\ icm.chk.cursor = ICMREG_CONFIG /\ icm.chk.wait = 0
    /\ icm.chk.reset /\ icm.chip = ChipPowerOn
    /\ icm._bad_registers = 1 /\ icm._register_wait = 20

\* C24: with check_registers() run once per sampling cycle, a corruption of
\* a checked register is followed by a state in which all eight checked
\* registers equal their shadow values, the wait counter is 0 and a report
\* has been pushed; from some point on no reset command is sent.
C24_RecoveryConverges ==
    /\ (icm.corrupted /\ icm._call.armed)
           ~> (~Mismatch /\ icm._register_wait = 0 /\ icm.cyc.pushed)
    /\ <>[](~icm.chk.reset)

\* C24, the case: with the wait counter running, the check of the
\* power-management register at cursor 0 found the power-on value the last
\* reset left there and sent the reset command again
C24_ResetAfterReset ==
    /\ icm.corrupted /\ icm.op = "measure"
    /\ icm.chk.mismatch /\ icm.chk.cursor = ICMREG_PWR_MGMT_1 /\ icm.chk.wait # 0
    /\ icm.chk.reset /\ icm.chip = ChipPowerOn
    /\ icm._bad_registers > 1

\* the state of the driver and of the sensor, without the observations and
\* the book-keeping of the model
Substance(d) ==
    [Fresh(d) EXCEPT !.op = "", !.ret = "", !.cycles = 0, !.run = 0,
                     !.awaiting = FALSE]

\* C26: a call of measure() before the deadline _reset_wait still makes the
\* sample transfer on the bus, and pushes and publishes no report.
C26_TransferWhileWaiting ==
    [][(CycleStep /\ ~icm._in_factory_test /\ now < icm._reset_wait) =>
          /\ icm'.cyc.kind # "guard"
          /\ NothingOut]_vars

\* C26, the case: measure() was called before the deadline, outside the
\* self-test window, and returned without a transfer
C26_ReturnedBeforeTransfer ==
    /\ icm.op = "measure" /\ icm.cyc.kind = "guard"
    /\ ~icm._in_factory_test /\ now < icm._reset_wait
    /\ icm._register_wait = 20

\* C27: a call of measure() inside the self-test window or before the
\* deadline _reset_wait returns OK without a transfer on the bus, pushes
\* and publishes nothing, and changes nothing of the driver's state: the
\* duplicate latch and flag, the counters, the wait counter, the filters
\* and both buffers are as before.
C27_GuardedCycleIsNoOp ==
    [][(CycleStep /\ (icm._in_factory_test \/ now < icm._reset_wait)) =>
          /\ icm'.cyc.kind = "guard" /\ icm'.cyc.raw = NoSample
          /\ icm'.ret = "OK"
          /\ NothingOut
          /\ Substance(icm') = Substance(icm)]_vars

\* C27, the case: measure() was called inside the self-test window, with
\* no deadline pending, and returned at once
C27_SkippedInSelfTest ==
    /\ icm.op = "measure" /\ icm.cyc.kind = "guard" /\ icm.ret = "OK"
    /\ icm._in_factory_test /\ icm._reset_wait <= now

\* C28: on every path through reset() each entry into the critical section
\* is matched by a leave before reset() returns: the interrupts are as they
\* were before the call.
C28_CriticalSectionsBalanced ==
    [][(icm' # icm /\ icm'.op \in {"reset", "init"}) =>
          icm'.irq_off = icm.irq_off]_vars

\* C28, the case: the reset ioctl returned -EIO on the path where the reset
\* bit was still set after the settle delay, with the interrupts disabled
C28_ReturnedWithInterruptsOff ==
    /\ icm.op = "reset" /\ icm.ret = "-EIO"
    /\ icm.rst.attempts = 1 /\ icm.rst.failed = 1
    /\ h_reset_set(icm.chip[ICMREG_PWR_MGMT_1])
    /\ icm.irq_off

\* C29: after a reset() that returned OK, each of the eight checked
\* registers has a shadow value that a call of write_checked_reg() stored.
C29_ShadowSetDefined ==
    (icm.op = "reset" /\ icm.ret = "OK") =>
        \A i \in CheckedIdx : icm.checked_writes[i] # -1

\* C29, the case: after a reset() that returned OK the shadow value of the
\* user-control register is what the constructor left in memory, and
\* differs from the register
C29_UserCtrlNeverWritten ==
    /\ icm.op = "reset" /\ icm.ret = "OK" /\ icm.rst.configured
    /\ icm.checked_writes[ICMREG_USER_CTRL] = -1
    /\ \A i \in CheckedIdx \ {ICMREG_USER_CTRL} : icm.checked_writes[i] # -1
    /\ icm._checked_values[ICMREG_USER_CTRL] = 255
    /\ icm.chip[ICMREG_USER_CTRL] = 0

\* C30: the shadow value of a checked register is the value of the last
\* call of write_checked_reg() for it; check_registers() with its reset
\* command and its repair write, measure() and a change of the sensor's
\* registers leave every shadow value as it is; the checked write of the
\* poll-rate ioctl changes the shadow value of the low-pass configuration
\* only.
C30_ShadowFollowsCheckedWrites ==
    /\ [](\A i \in CheckedIdx :
             icm.checked_writes[i] # -1 => icm._checked_values[i] = icm.checked_writes[i])
    /\ [][icm'.op \in {"check_registers", "measure", "corrupt"} =>
             icm'._checked_values = icm._checked_values]_vars
    /\ [][icm'.op = "pollrate" =>
             \A i \in CheckedIdx \ {ICMREG_CONFIG} :
                 icm'._checked_values[i] = icm._checked_values[i]]_vars

\* C30, the case: check_registers() has sent the reset command; the
\* power-management register holds its power-on value and its shadow value
\* is still the one of the checked write in reset()
C30_ShadowKeptThroughReset ==
    /\ icm.op = "check_registers" /\ icm.chk.reset
    /\ icm.chip[ICMREG_PWR_MGMT_1] = ChipPowerOn[ICMREG_PWR_MGMT_1]
    /\ icm._checked_values[ICMREG_PWR_MGMT_1] = BITS_BESTCLOCK_PLL3
    /\ icm.checked_writes[ICMREG_PWR_MGMT_1] = BITS_BESTCLOCK_PLL3

\* C31: a call of check_registers() reads the register at the cursor and
\* no other; when the value read equals the shadow value, the call changes
\* nothing but the cursor, which advances by one modulo 8: no register of
\* the sensor, no shadow value, no counter and no deadline changes.  Eight
\* matching calls in a row therefore visit every checked register once.
C31_MatchOnlyAdvancesCursor ==
    [][CheckStep =>
          /\ icm'.chk.cursor = icm._checked_next
          /\ icm'.chk.mismatch =
                 (icm.chip[icm._checked_next] # icm._checked_values[icm._checked_next])
          /\ (icm.chip[icm._checked_next] = icm._checked_values[icm._checked_next]
                 => Substance(icm') =
                        [Substance(icm) EXCEPT !._checked_next =
                             (@ + 1) % ICM20602_NUM_CHECKED_REGISTERS])]_vars

\* C31, the case: a matching call at the last checked register, the
\* interrupt-pin configuration, put the cursor back to the first one
C31_WrappedOnMatch ==
    /\ icm.op = "check_registers" /\ ~icm.chk.mismatch
    /\ icm.chk.cursor = ICMREG_INT_PIN_CFG /\ icm._checked_next = 0
    /\ icm._bad_registers = 0 /\ icm._register_wait = 0

\* C32: measure() never drops two fetched cycles in a row as duplicates.
\* The duplicate flag is set exactly by a dropped cycle and kept by every
\* other operation; a cycle fetched while it is set is processed as a new
\* sample whatever its accel triplet is: the duplicate counter stays, the
\* latch takes the triplet of the cycle and the flag is cleared.
C32_NoTwoSuppressionsInARow ==
    /\ [][FetchStep => icm'._got_duplicate = (icm'.cyc.kind = "dup")]_vars
    /\ [][~FetchStep => icm'._got_duplicate = icm._got_duplicate]_vars
    /\ [][(FetchStep /\ icm._got_duplicate) =>
             /\ icm'.cyc.kind # "dup"
             /\ icm'._duplicates = icm._duplicates
             /\ icm'._last_accel = AccelBytes(icm'.cyc.raw)]_vars

\* C32, the case: the sensor returned the same triplet three times; the
\* second cycle was dropped and the third pushed a report equal in its raw
\* accel fields to the report of the first
C32_RepeatedTripletPushedAgain ==
    /\ icm.op = "measure" /\ icm.cyc.kind = "full"
    /\ icm._duplicates = 1 /\ ~icm._got_duplicate
    /\ Len(icm._accel_reports) = 2
    /\ icm._accel_reports[1].x_raw = icm._accel_reports[2].x_raw
    /\ icm._accel_reports[1].y_raw = icm._accel_reports[2].y_raw
    /\ icm._accel_reports[1].z_raw = icm._accel_reports[2].z_raw

\* C33: every call of measure() that returns an I/O failure, for a failed
\* or short transfer as for an all-zero sample, adds one to the
\* bad-transfer counter, and the error count of the reports, bad transfers
\* plus bad register reads, never decreases.
C33_EveryFailedCycleCounted ==
    /\ [][(CycleStep /\ icm'.op = "measure" /\ icm'.ret = "-EIO") =>
             icm'._bad_transfers = icm._bad_transfers + 1]_vars
    /\ [][icm'._bad_transfers + icm'._bad_registers
             >= icm._bad_transfers + icm._bad_registers]_vars

\* C33, the case: the transfers of all the cycles followed failed, each call
\* returned an I/O failure, and the bad-transfer counter is still 0
C33_FailedTransfersUncounted ==
    /\ icm.op = "measure" /\ icm.ret = "-EIO" /\ icm.cyc.kind = "xfer"
    /\ icm.cycles = MaxFollowed
    /\ icm._bad_transfers = 0 /\ icm._bad_registers = 0
    /\ icm._accel_reports = <<>>

\* C34: for a requested rate of 1 to 1000 Hz the divider programmed by
\* _set_sample_rate() is min(200, max(1, floor(1000 / rate))), the 8-bit
\* store of the quotient changing nothing, and of two requests the one
\* for the higher rate never leaves the lower sample rate.
C34_DividerNeverWraps ==
    /\ []((icm.op = "sample_rate" /\ icm.req \in 1 .. 1000) =>
             icm.chip[ICMREG_SMPLRT_DIV] + 1 = Clamped(1000 \div icm.req))
    /\ [][(/\ icm.op = "sample_rate" /\ icm.req \in 1 .. 1000
           /\ icm'.op = "sample_rate" /\ icm'.req \in 1 .. 1000
           /\ icm.req <= icm'.req) =>
             icm._sample_rate <= icm'._sample_rate]_vars

\* C34, the case: the quotient of a request of 3 Hz does not fit 8 bits,
\* and the sample rate it left is above the one a request of 4 Hz leaves
C34_ThreeAboveFour ==
    /\ icm.op = "sample_rate" /\ icm.req = 3
    /\ 1000 \div icm.req > 255
    /\ icm._sample_rate = 1000 \div ((1000 \div icm.req) % 256)
    /\ icm._sample_rate > 1000 \div sample_rate_div(icm.req + 1)

\* the checked writes of a successful reset() after the clock selection
ConfigurationWrites(sample_rate) ==
    << <<ICMREG_SMPLRT_DIV, sample_rate_div(sample_rate) - 1>>,
       <<ICMREG_CONFIG, BITS_DLPF_CFG_42HZ>>,
       <<ICMREG_GYRO_CONFIG, BITS_FS_2000DPS>>,
       <<ICMREG_ACCEL_CONFIG, 16>>,
       <<ICMREG_INT_ENABLE, BIT_DATA_RDY_INT_EN>>,
       <<ICMREG_INT_PIN_CFG, BIT_INT_ANYRD_2CLEAR>> >>

\* C35: reset() returns OK only if the power-management register reads
\* back the clock selection; it has then made, each as a checked write and
\* in this order, the writes of the sample-rate divider (from the sample
\* rate it found), the low-pass bucket, the gyro range of 2000 deg/s, the
\* accel range of 8 g, the data-ready interrupt and the interrupt-pin
\* configuration, after the clock selection of its last attempt.  When it
\* returns an I/O failure it has made none of the six.
C35_ResetConfiguresInOrder ==
    [][(icm' # icm /\ icm'.op = "reset") =>
          LET writes == icm'.rst.writes
              attempts == icm'.rst.attempts IN
          IF icm'.ret = "OK"
          THEN /\ icm'.chip[ICMREG_PWR_MGMT_1] = BITS_BESTCLOCK_PLL3
               /\ Len(writes) = attempts + 6
               /\ \A i \in 1 .. attempts :
                      writes[i] = <<ICMREG_PWR_MGMT_1, BITS_BESTCLOCK_PLL3>>
               /\ SubSeq(writes, attempts + 1, attempts + 6)
                      = ConfigurationWrites(icm._sample_rate)
               /\ \A i \in 2 .. 7 : icm'.chip[i] = icm'._checked_values[i]
          ELSE /\ icm'.ret = "-EIO"
               /\ icm'.chip[ICMREG_PWR_MGMT_1] # BITS_BESTCLOCK_PLL3
               /\ \A i \in 1 .. Len(writes) : writes[i][1] = ICMREG_PWR_MGMT_1
               /\ \A i \in 2 .. 7 : icm'.chip[i] = ChipPowerOn[i]]_vars

\* C35, the case: a reset() that found the sample rate at 12 Hz returned
\* OK with the divider of 12 Hz first among its six configuration writes
C35_ConfiguredFromSampleRate ==
    /\ icm.op = "reset" /\ icm.ret = "OK"
    /\ icm._sample_rate = 12
    /\ icm.rst.writes = <<<<ICMREG_PWR_MGMT_1, BITS_BESTCLOCK_PLL3>>>>
                            \o ConfigurationWrites(12)
    /\ icm.chip[ICMREG_SMPLRT_DIV] = 82

\* what force() leaves of a buffer of the given capacity
Pushed(before, after, capacity) ==
    /\ Len(after) = (IF Len(before) < capacity THEN Len(before) + 1 ELSE capacity)
    /\ SubSeq(after, 1, Len(after) - 1)
          = (IF Len(before) < capacity THEN before ELSE Tail(before))

\* C36: a cycle of measure() that fetched a transfer and passed the
\* duplicate test, the zero-data test and the wait counter pushes one accel
\* report and one gyro report, of the same timestamp and error count, the
\* oldest report making room in a full buffer, whether or not a window
\* closed; the accel report is published exactly when the accel window
\* closed and publication is not blocked, the gyro report exactly when the
\* gyro window closed and publication is not blocked.  No buffer ever
\* holds more reports than its capacity.
C36_PushedAlwaysPublishedWhenDue ==
    /\ [](/\ Len(icm._accel_reports) <= icm._accel_size
          /\ Len(icm._gyro_reports) <= icm._gyro_size)
    /\ [][(/\ FetchStep /\ icm'.op = "measure"
           /\ ~(~icm._got_duplicate /\ AccelBytes(icm'.cyc.raw) = icm._last_accel)
           /\ ~DecodesToZero(icm'.cyc.raw)
           /\ icm._register_wait = 0) =>
             /\ icm'.ret = "OK" /\ icm'.cyc.pushed
             /\ Pushed(icm._accel_reports, icm'._accel_reports, icm._accel_size)
             /\ Pushed(icm._gyro_reports, icm'._gyro_reports, icm._gyro_size)
             /\ Newest(icm'._accel_reports).timestamp = now
             /\ Newest(icm'._gyro_reports).timestamp = now
             /\ Newest(icm'._accel_reports).error_count
                    = icm._bad_transfers + icm._bad_registers
             /\ Newest(icm'._gyro_reports).error_count
                    = icm._bad_transfers + icm._bad_registers
             /\ icm'.cyc.pub_accel = (icm'.cyc.win_accel /\ ~icm._pub_blocked)
             /\ icm'.cyc.pub_gyro = (icm'.cyc.win_gyro /\ ~icm._pub_blocked)]_vars

\* C36, the case: the third report since an all-zero sample was counted
\* took the place of the oldest in the two-entry accel buffer, in a cycle
\* in which the accel window closed and the gyro window did not; the accel
\* report was published and the gyro report was not
C36_OverwroteOldestPublishedAccelOnly ==
    /\ icm.op = "measure" /\ icm.cyc.kind = "full"
    /\ icm.cycles = 4 /\ icm._duplicates = 0 /\ icm._bad_transfers = 1
    /\ icm._accel_size = 2 /\ Len(icm._accel_reports) = 2
    /\ icm._accel_reports[1].error_count = 1
    /\ icm._accel_reports[2].error_count = 1
    /\ icm.cyc.win_accel /\ ~icm.cyc.win_gyro
    /\ icm.cyc.pub_accel /\ ~icm.cyc.pub_gyro

\* C37: a set-poll-rate request that stops the sampling (manual mode) or
\* starts it (a rate while the call interval is 0) leaves the duplicate
\* latch reset as a whole, the stored triplet all zero and the duplicate
\* flag cleared, and both buffers empty.
C37_LatchResetAsAWhole ==
    [][(/\ icm'.op = "pollrate" /\ icm'.ret = "OK"
        /\ (icm'.mode = "MANUAL" \/ icm._call_interval = 0)) =>
          /\ icm'._last_accel = ZeroAccel
          /\ ~icm'._got_duplicate
          /\ icm'._accel_reports = <<>>
          /\ icm'._gyro_reports = <<>>]_vars

\* C37, the case: the switch to manual mode came after a cycle that was
\* dropped as a duplicate; the timer is cancelled, the triplet is zero, the
\* buffers are empty and the duplicate flag is still set
C37_StoppedWithFlagSet ==
    /\ icm.op = "pollrate" /\ icm.ret = "OK" /\ icm.mode = "MANUAL"
    /\ ~icm._call.armed /\ icm._call_interval = 0
    /\ icm._last_accel = ZeroAccel
    /\ icm._accel_reports = <<>> /\ icm._gyro_reports = <<>>
    /\ icm._duplicates = 1
    /\ icm._got_duplicate

\* C38: while the timer callback is registered its period is the call
\* interval less 200 microseconds and the call interval is at least 1000,
\* so the period is at least 800 and the subtraction does not wrap,
\* whatever set-poll-rate requests came before; a request for a rate made
\* while the timer is registered sets the new period and neither cancels
\* the timer nor empties the buffers.
C38_PeriodNeverUnderflows ==
    /\ [](icm._call.armed =>
             /\ icm._call_interval >= 1000
             /\ icm._call.period = icm._call_interval - ICM20602_TIMER_REDUCTION
             /\ icm._call.period >= 800)
    /\ [][(/\ icm'.op = "pollrate" /\ icm'.ret = "OK" /\ icm'.mode # "MANUAL"
           /\ icm._call.armed) =>
             /\ icm'._call.armed
             /\ icm'._accel_reports = icm._accel_reports
             /\ icm'._gyro_reports = icm._gyro_reports
             /\ icm'._last_accel = icm._last_accel]_vars

\* C38, the case: a request for 250 Hz, made while the timer ran at 1000 Hz
\* and a report was waiting, left the period at 3800 us and the report in
\* the buffer
C38_RateChangedWhilePolling ==
    /\ icm.op = "pollrate" /\ icm.ret = "OK" /\ icm.mode = "hz" /\ icm.req = 250
    /\ icm._call.armed
    /\ icm._call_interval = 4000 /\ icm._call.period = 3800
    /\ Len(icm._accel_reports) = 1 /\ icm._last_accel # ZeroAccel

\* C39: whenever a set-low-pass request, accel or gyro, is made, in manual
\* mode and right after init as while polling, the call interval is not 0,
\* and the software filters are set from a sample rate that is the
\* quotient of 1.0e6 by a nonzero call interval.
C39_LowpassFromNonzeroInterval ==
    [][(icm' # icm /\ icm'.op \in {"accel_lowpass", "gyro_lowpass"}) =>
          /\ icm._call_interval # 0
          /\ icm'.op = "accel_lowpass" => icm'._accel_filter.sample_us # 0
          /\ icm'.op = "gyro_lowpass" => icm'._gyro_filter.sample_us # 0]_vars

\* C39, the case: the accel cutoff was set to 42 Hz while no poll rate was
\* set; the filter was given the quotient of 1.0e6 by a call interval of 0
C39_DividedByZeroInterval ==
    /\ icm.op = "accel_lowpass" /\ icm.ret = "OK" /\ icm.req = 42
    /\ icm._call_interval = 0 /\ ~icm._call.armed
    /\ icm._accel_filter = set_cutoff_frequency(0, 42)
    /\ icm.chip[ICMREG_CONFIG] = BITS_DLPF_CFG_42HZ

====
